---------------------------- MODULE Spec2Model ----------------------------
(***************************************************************************)
(* NeurAVR common core: the UART line receiver and single-message          *)
(* transmitter (neuravr-uart), the ADC round-robin scheduler               *)
(* (neuravr-adc), and the command parser and the application object of     *)
(* the framework (neurapp), as state machines.  Each subsystem has its own *)
(* specification (SpecRecv, SpecSend, SpecADC, SpecParse, SpecApp,         *)
(* SpecDispatch) over the shared variable list; a subsystem's actions      *)
(* leave the other subsystems' variables unchanged.  An atomic block       *)
(* (interrupts off), an interrupt handler (ISR_BLOCK) or a call made by    *)
(* the main loop alone is one action.                                      *)
(***************************************************************************)
EXTENDS Integers, Sequences, FiniteSets, TLC

(***************************************************************************)
(* Bounds of the model.  The buffer geometry of the targets (8 lines of    *)
(* 64 or 128 characters) is scaled down; the code only relies on both      *)
(* being powers of two.                                                    *)
(***************************************************************************)
\* log2 of the number of line slots (UART_LINE_COUNT is 2^3 on the targets)
LineCountBits == 2
\* log2 of the slot capacity (UART_LINE_BITS is 6 or 7 on the targets)
LineBits == 1
\* number of characters the receive interrupt delivers in one behaviour
MaxRecv == 7
\* longest message handed to UART_QueueSend
MaxMsgLen == 2
\* number of analog channels (ADC_CHANNEL_COUNT is 6 or 8 on the targets)
AdcChannels == 3
\* number of WasNewCommand calls after one ParseInputLine call
MaxQueries == 2
\* most digits of an argument of a well-formed command line
MaxDigits == 2
\* longest decimal token of the overflow specification
MaxDecimal == 6
\* every line of at most this many characters is parsed
MaxShortLen == 2
\* number of ParseInputLine calls in one behaviour
MaxParses == 2
\* most rows of an event handler table (before its terminator)
MaxRows == 2
\* number of report buffers (NEURAPP_REPORT_QUEUE_LENGTH is 4)
QueueLength == 2
\* most reports a handler offers in one DoPolling call
MaxOffers == 2
\* number of reports handlers make in one behaviour
MaxReports == 3
\* number of timer interrupts in one behaviour
MaxUpdates == 3
\* number of threads of the workstation emulation that use ATOMIC_BLOCK
MaxThreads == 2
\* deepest nesting of ATOMIC_BLOCKs in one thread
MaxNest == 2
\* bits in a byte of rtc_timestamp, and bytes in it
ByteBits == 1
TimestampBytes == 2

\* Character codes the receiver distinguishes.
NUL == 0
LF == 10
CR == 13
\* The characters received: a NUL byte, two printable characters, LF, CR.
RecvChars == {NUL, 97, 98, LF, CR}

ADC_CHANNEL_COUNT == AdcChannels
\* Conversion results the hardware delivers (left-adjusted 10-bit samples).
AdcResults == {0, 32768}
\* The values of a channel mask: a uint8_t has bits beyond the channels of
\* the ATmega328P, the mask here has one.
ChannelMasks == 0 .. 2 ^ (ADC_CHANNEL_COUNT + 1) - 1

\* A pointer is NULL or the 1-tuple of what it points to.
NULL == << >>
Ptr(x) == << x >>

UART_LINE_BITS == LineBits
UART_LINE_SIZE == 2 ^ UART_LINE_BITS
UART_LINE_COUNT == 2 ^ LineCountBits

\* x << UART_LINE_BITS
ShlLine(x) == x * (2 ^ UART_LINE_BITS)
\* x & (UART_LINE_COUNT - 1), UART_LINE_COUNT being a power of two
AndLineMask(x) == x % UART_LINE_COUNT

VARIABLES
  \* neuravr-uart receive side
  UART_recvlines,           \* char[UART_LINE_COUNT * UART_LINE_SIZE]
  rowcount, oldestrow, newestrow,
  recvcharptr,
  saw_cr,                   \* static local of UART_HandleRecvChar_ISR
  uart_filter_empty_lines,
  \* the main loop's view of the receive side
  thisline,                 \* the pointer UART_GetNextLine returned last
  \* observers of the receive side
  thisline_seen,            \* that slot's contents, and overruns, when first returned
  nrecv,                    \* characters received so far
  lastchar,                 \* the previous received character (NULL: none)
  overruns                  \* lines terminated while no row was free

recvvars == << UART_recvlines, rowcount, oldestrow, newestrow, recvcharptr,
               saw_cr, uart_filter_empty_lines, thisline, thisline_seen,
               nrecv, lastchar, overruns >>

VARIABLES
  \* neuravr-uart transmit side
  UART_transbuf,            \* NULL or a pointer to the string being sent
  transcharptr,
  trans_is_flash,
  \* the main loop inside UART_QueueSend / UART_QueueSend_P
  sendpc,                   \* "idle", "wait" (UART_WaitForSendDone), "install"
  message,                  \* the argument of the call
  message_P,                \* TRUE in UART_QueueSend_P
  \* what UART_GetNextSendChar_ISR returned last
  isr_result, sendchar,
  \* observers of the transmit side
  queued,                   \* the pointer installed last (NULL: none yet)
  sent,                     \* characters handed out since then
  busy_at_call              \* a send was in progress when the call began

sendvars == << UART_transbuf, transcharptr, trans_is_flash, sendpc, message,
               message_P, isr_result, sendchar, queued, sent, busy_at_call >>

VARIABLES
  \* neuravr-adc
  ADC_idle,
  ADC_needs_conversion,     \* bool[ADC_CHANNEL_COUNT]
  ADC_data_ready,           \* bool[ADC_CHANNEL_COUNT]
  ADC_data,                 \* uint16_t[ADC_CHANNEL_COUNT]
  \* the converter (ATmega328P)
  admux,                    \* channel selected in ADMUX
  adsc,                     \* ADCSRA start flag: a conversion is in progress
  \* what ADC_ReadPendingSample gave its caller last
  sample_found, sample_data, sample_channel,
  \* observers of the scheduler
  adc_call,                 \* the operation that ran last
  adc_mask,                 \* the mask of the last accepted ADC_StartConversion
  adc_ready_order,          \* channels made ready since then, in order
  adc_inflight,             \* conversions started and not yet collected
  adc_discarded,            \* unread results that ADC_StartConversion dropped
  adc_read_order            \* channels ADC_ReadPendingSample gave out since

adcvars == << ADC_idle, ADC_needs_conversion, ADC_data_ready, ADC_data, admux,
              adsc, sample_found, sample_data, sample_channel, adc_call,
              adc_mask, adc_ready_order, adc_inflight, adc_discarded,
              adc_read_order >>

VARIABLES
  \* NeurApp_Parser
  have_command,
  this_cmdname,             \* neurapp_cmdname_t, as a tuple of character codes
  this_arg1, this_arg2,     \* uint16_t
  argsfound,
  \* the caller of the parser
  rawline,                  \* the line given to ParseInputLine last
  was_ok,                   \* what that call returned
  cmd, arg1, arg2, argcount,  \* the variables WasNewCommand copies into
  was_new,                  \* what WasNewCommand returned last
  \* observers of the parser
  scan_states,              \* the parse state after each character of rawline
  parse_call,               \* the operation that ran last
  nparsed,                  \* ParseInputLine calls so far
  nqueries                  \* WasNewCommand calls since the last of them

parsevars == << have_command, this_cmdname, this_arg1, this_arg2, argsfound,
                rawline, was_ok, cmd, arg1, arg2, argcount, was_new,
                scan_states, parse_call, nparsed, nqueries >>

VARIABLES
  \* NeurApp_Base
  event_lut,                \* NULL or a pointer to the rows before the terminator
  echo_state,
  report_read_ptr, report_write_ptr, report_count,
  transmit_running,
  skipped_ticks_short_total, skipped_ticks_long_total,
  in_isr, long_tasks_running,
  \* the timer interrupt
  isr_stack,                \* the DoUpdate_ISR invocations under way, outermost first
  \* observers of the application object
  app_call,                 \* the main-loop operation that ran last
  app_line,                 \* the line DoPolling got from UART_GetNextLine
  app_busy,                 \* what UART_IsSendInProgress told DoPolling
  app_offers,               \* the reports each handler had for DoPolling
  calls,                    \* the calls that operation made, in order
  nupdates                  \* DoUpdate_ISR invocations so far

appvars == << event_lut, echo_state, report_read_ptr, report_write_ptr,
              report_count, transmit_running, skipped_ticks_short_total,
              skipped_ticks_long_total, in_isr, long_tasks_running, isr_stack,
              app_call, app_line, app_busy, app_offers, calls, nupdates >>

VARIABLES
  \* workstation emulation of util/atomic.h
  atomic_waiting_mutex,     \* NULL or a pointer to the thread that holds it
  atomic_owner_count,
  atomic_owner_id,          \* a thread, or NoThread
  \* each thread's place in ATOMIC_GetCli / ATOMIC_ReleaseCli and its locals
  cli_pc,
  cli_save_old,
  cli_old_count,
  cli_old_id,
  cli_blocks                \* the ATOMIC_idx of each block the thread is in

atomicvars == << atomic_waiting_mutex, atomic_owner_count, atomic_owner_id,
                 cli_pc, cli_save_old, cli_old_count, cli_old_id, cli_blocks >>

VARIABLES
  \* real-time clock
  target,                   \* the build: "m328p" or "emu"
  rtc_timestamp,
  rtc_usercallback,         \* NULL or a pointer to a function
  TIMSK1,                   \* m328p: Timer 1 interrupt mask
  have_timer_thread,        \* emu
  timer_active,             \* emu
  sreg_i,                   \* interrupts can come: the I flag of the MCU,
                            \* atomic_waiting_mutex free in the emulation
  \* Timer_Query of the main program
  tq_pc,
  tq_bytes,                 \* the bytes of result read so far
  tq_seen,                  \* the values rtc_timestamp held during the call
  \* what the last step was
  timer_op,
  timer_arg,
  rtc_hz_set,               \* NULL or a pointer to the rate of the last Timer_Init
  cb_calls                  \* the callback calls the last step made

timervars == << target, rtc_timestamp, rtc_usercallback, TIMSK1,
                have_timer_thread, timer_active, sreg_i, tq_pc, tq_bytes,
                tq_seen, timer_op, timer_arg, rtc_hz_set, cb_calls >>

VARIABLES
  \* the main program inside ADC_StartConversion or ADC_ReadPendingSample
  adc_main_pc,
  adc_main_first            \* first_channel of ADC_StartConversion

adcmainvars == << adc_main_pc, adc_main_first >>

VARIABLES
  \* NeurApp_Base, the report strings
  reportqueue,              \* the string held by each slot
  naccepted,                \* how many reports handlers have made so far
  report_log,               \* the reports passed to UART_QueueSend, in order
  trans_source,             \* NULL or the buffer UART_transbuf points into
  trans_torn                \* that buffer was written while being sent

queuevars == << reportqueue, naccepted, report_log, trans_source, trans_torn >>

VARIABLES
  \* the UART of the target
  UCSR0B,                   \* ATmega: UART_CSRB_OFF, _TXIDLE or _TXON
  uart_active,              \* emulation: the feeder thread serves the UART
  real_baud_rate,
  uart_call                 \* the last UART function that has acted

uartvars == << UCSR0B, uart_active, real_baud_rate, uart_call >>

VARIABLES
  \* the threads of the workstation emulation
  emu_kind,                 \* what each thread runs
  emu_handler               \* the handler each thread is in, or "none"

emuvars == << emu_kind, emu_handler >>

vars == << recvvars, sendvars, adcvars, parsevars, appvars, atomicvars,
        timervars, adcmainvars, queuevars, uartvars, emuvars >>

\* What the actions of one subsystem leave alone.
NotRecv == << sendvars, adcvars, parsevars, appvars, atomicvars, timervars,
              adcmainvars, queuevars, uartvars, emuvars >>
NotSend == << recvvars, adcvars, parsevars, appvars, atomicvars, timervars,
              adcmainvars, queuevars, uartvars, emuvars >>
NotADC == << recvvars, sendvars, parsevars, appvars, atomicvars, timervars,
             adcmainvars, queuevars, uartvars, emuvars >>
NotParse == << recvvars, sendvars, adcvars, appvars, atomicvars, timervars,
               adcmainvars, queuevars, uartvars, emuvars >>
\* The application object owns a parser; the caller's side of the parser
\* above is not its own.
NotApp == << recvvars, sendvars, adcvars, rawline, was_ok, cmd, arg1, arg2,
             argcount, was_new, scan_states, parse_call, nparsed, nqueries,
             atomicvars, timervars, adcmainvars, queuevars, uartvars,
             emuvars >>
NotAtomic == << recvvars, sendvars, adcvars, parsevars, appvars, timervars,
                adcmainvars, queuevars, uartvars, emuvars >>
NotTimer == << recvvars, sendvars, adcvars, parsevars, appvars, atomicvars,
               adcmainvars, queuevars, uartvars, emuvars >>
\* Everything but the ADC scheduler and the main program's place in it.
NotADCMain == << recvvars, sendvars, parsevars, appvars, atomicvars,
                 timervars, queuevars, uartvars, emuvars >>

\* The characters of row r, as stored (UART_LINE_SIZE of them).
Slot(lines, r) == [i \in 0 .. UART_LINE_SIZE - 1 |-> lines[ShlLine(r) + i]]

(***************************************************************************)
(* Receive side                                                            *)
(***************************************************************************)

\* UART_InitBuffers_ISR on zero-initialised statics.
InitRecv ==
  /\ UART_recvlines = [k \in 0 .. UART_LINE_COUNT * UART_LINE_SIZE - 1 |-> NUL]
  /\ rowcount = 0
  /\ oldestrow = 0
  /\ newestrow = 0
  /\ recvcharptr = 0
  /\ saw_cr = FALSE
  /\ uart_filter_empty_lines = FALSE
  /\ thisline = NULL
  /\ thisline_seen = NULL
  /\ nrecv = 0
  /\ lastchar = NULL
  /\ overruns = 0

\* Mutant: the LF after a CR is taken as a terminator of its own.
IsLfAfterCr_NoCollapse(sawcr, recvchar) == FALSE

\* The LF of a CR-LF pair.
IsLfAfterCr(sawcr, recvchar) == sawcr /\ recvchar = LF

IsEndOfLine(recvchar) == recvchar = LF \/ recvchar = CR

\* Mutant: the filter flag is not consulted.
IsFilteredEmpty_Never(filter, charptr) == FALSE

\* An empty line that filtering drops.
IsFilteredEmpty(filter, charptr) == filter /\ charptr = 0

\* Mutant: the write cursor is not truncated to the capacity.
TerminatorIndex_NoClamp(charptr) == charptr

\* Where the terminator of the finished line goes.
TerminatorIndex(charptr) ==
  IF charptr >= UART_LINE_SIZE THEN UART_LINE_SIZE - 1 ELSE charptr

\* Mutant: the cap is taken to be UART_LINE_COUNT.
HasFreeRow_OffByOne(rc) == rc < UART_LINE_COUNT

\* Whether a finished line moves on to a new slot.
HasFreeRow(rc) == rc < UART_LINE_COUNT - 1

\* Mutant: the ring always advances, onto the oldest unread line when full.
NextNewestRow_AlwaysAdvance(rc, newest) == AndLineMask(newest + 1)

\* The slot of the next line: a new one, or the same one when full.
NextNewestRow(rc, newest) ==
  IF HasFreeRow(rc) THEN AndLineMask(newest + 1) ELSE newest

\* Whether a character still fits the line in progress.
HasRoom(charptr) == charptr < UART_LINE_SIZE

UART_HandleRecvChar_ISR(recvchar) ==
  /\ nrecv < MaxRecv
  /\ IF IsLfAfterCr(saw_cr, recvchar)
       THEN UNCHANGED << UART_recvlines, rowcount, newestrow, recvcharptr,
                         overruns >>
     ELSE IF IsEndOfLine(recvchar)
       THEN IF IsFilteredEmpty(uart_filter_empty_lines, recvcharptr)
              THEN UNCHANGED << UART_recvlines, rowcount, newestrow,
                                recvcharptr, overruns >>
              ELSE LET terminated ==
                         [UART_recvlines EXCEPT
                            ![ShlLine(newestrow) + TerminatorIndex(recvcharptr)] = NUL]
                       nextrow == NextNewestRow(rowcount, newestrow)
                   IN /\ rowcount' = IF HasFreeRow(rowcount)
                                       THEN rowcount + 1
                                       ELSE rowcount
                      /\ newestrow' = nextrow
                      /\ UART_recvlines' =
                           [terminated EXCEPT ![ShlLine(nextrow)] = NUL]
                      /\ recvcharptr' = 0
                      /\ overruns' = IF HasFreeRow(rowcount)
                                       THEN overruns
                                       ELSE overruns + 1
     ELSE IF HasRoom(recvcharptr)
       THEN /\ UART_recvlines' =
                 [UART_recvlines EXCEPT
                    ![ShlLine(newestrow) + recvcharptr] = recvchar]
            /\ recvcharptr' = recvcharptr + 1
            /\ UNCHANGED << rowcount, newestrow, overruns >>
       ELSE UNCHANGED << UART_recvlines, rowcount, newestrow, recvcharptr,
                         overruns >>
  /\ saw_cr' = (recvchar = CR)
  /\ nrecv' = nrecv + 1
  /\ lastchar' = Ptr(recvchar)
  /\ UNCHANGED << oldestrow, uart_filter_empty_lines, thisline, thisline_seen >>
  /\ UNCHANGED NotRecv

\* The value UART_GetNextLine returns.
NextLineResult ==
  IF 0 < rowcount THEN Ptr(ShlLine(oldestrow)) ELSE NULL

UART_GetNextLine ==
  /\ thisline' = NextLineResult
  /\ thisline_seen' =
       IF NextLineResult = NULL THEN NULL
       ELSE IF thisline = NULL
         THEN << Slot(UART_recvlines, oldestrow), overruns >>
       ELSE thisline_seen
  /\ UNCHANGED << UART_recvlines, rowcount, oldestrow, newestrow, recvcharptr,
                  saw_cr, uart_filter_empty_lines, nrecv, lastchar, overruns >>
  /\ UNCHANGED NotRecv

\* The main loop gives the pointer up when it releases the line.
UART_DoneWithLine ==
  /\ IF 0 < rowcount
       THEN /\ oldestrow' = AndLineMask(oldestrow + 1)
            /\ rowcount' = rowcount - 1
       ELSE UNCHANGED << oldestrow, rowcount >>
  /\ thisline' = NULL
  /\ thisline_seen' = NULL
  /\ UNCHANGED << UART_recvlines, newestrow, recvcharptr, saw_cr,
                  uart_filter_empty_lines, nrecv, lastchar, overruns >>
  /\ UNCHANGED NotRecv

UART_SetLineFiltering(new_state) ==
  /\ uart_filter_empty_lines' = new_state
  /\ UNCHANGED << UART_recvlines, rowcount, oldestrow, newestrow, recvcharptr,
                  saw_cr, thisline, thisline_seen, nrecv, lastchar, overruns >>
  /\ UNCHANGED NotRecv

NextRecv ==
  \/ \E recvchar \in RecvChars : UART_HandleRecvChar_ISR(recvchar)
  \/ UART_GetNextLine
  \/ UART_DoneWithLine
  \/ \E new_state \in BOOLEAN : UART_SetLineFiltering(new_state)

(***************************************************************************)
(* Transmit side                                                           *)
(***************************************************************************)

\* The strings a caller may pass: up to MaxMsgLen characters, none of them NUL.
Strings == UNION {[1 .. n -> {97, 98}] : n \in 0 .. MaxMsgLen}
Messages == {NULL} \cup {Ptr(str) : str \in Strings}

\* UART_InitBuffers_ISR, the main loop outside any call.
InitSend ==
  /\ UART_transbuf = NULL
  /\ transcharptr = 0
  /\ trans_is_flash = FALSE
  /\ sendpc = "idle"
  /\ message = NULL
  /\ message_P = FALSE
  /\ isr_result = FALSE
  /\ sendchar = NUL
  /\ queued = NULL
  /\ sent = << >>
  /\ busy_at_call = FALSE

\* Mutant: the query always answers that nothing is being sent.
UART_IsSendInProgress_NeverBusy == FALSE

UART_IsSendInProgress == UART_transbuf # NULL

\* Mutant: the cursor is applied one character too far.
CharAt_OffByOne(buf, idx) ==
  IF idx + 1 < Len(buf[1]) THEN buf[1][idx + 2] ELSE NUL

\* buf[idx] (or pgm_read_byte(buf + idx)) of a NUL-terminated string.
CharAt(buf, idx) ==
  IF idx < Len(buf[1]) THEN buf[1][idx + 1] ELSE NUL

\* UART_QueueSend(msg) and UART_QueueSend_P(msg) are entered.
UART_QueueSend_Enter(msg, is_P) ==
  /\ sendpc = "idle"
  /\ sendpc' = "wait"
  /\ message' = msg
  /\ message_P' = is_P
  /\ busy_at_call' = UART_IsSendInProgress
  /\ UNCHANGED << UART_transbuf, transcharptr, trans_is_flash, isr_result,
                  sendchar, queued, sent >>
  /\ UNCHANGED NotSend

\* One round of the loop of UART_WaitForSendDone: the query, then either the
\* delay and another round, or the return.
UART_WaitForSendDone ==
  /\ sendpc = "wait"
  /\ sendpc' = IF UART_IsSendInProgress THEN "wait" ELSE "install"
  /\ UNCHANGED << UART_transbuf, transcharptr, trans_is_flash, message,
                  message_P, isr_result, sendchar, queued, sent, busy_at_call >>
  /\ UNCHANGED NotSend

\* The rest of UART_QueueSend / UART_QueueSend_P: the atomic block, if any.
UART_QueueSend_Atomic ==
  /\ sendpc = "install"
  /\ sendpc' = "idle"
  /\ IF message # NULL
       THEN /\ UART_transbuf' = message
            /\ transcharptr' = 0
            /\ trans_is_flash' = message_P
            /\ queued' = message
            /\ sent' = << >>
       ELSE UNCHANGED << UART_transbuf, transcharptr, trans_is_flash,
                         queued, sent >>
  /\ UNCHANGED << message, message_P, isr_result, sendchar, busy_at_call >>

UART_QueueSend_Install ==
  /\ UART_QueueSend_Atomic
  /\ UNCHANGED NotSend

\* The data-register-empty interrupt, or a round of the emulated feeder.
GetNextSendChar ==
  /\ IF UART_transbuf # NULL
       THEN LET thischar == CharAt(UART_transbuf, transcharptr)
            IN IF thischar = NUL
                 THEN /\ UART_transbuf' = NULL
                      /\ transcharptr' = 0
                      /\ trans_is_flash' = FALSE
                      /\ isr_result' = FALSE
                      /\ sendchar' = thischar
                      /\ sent' = sent
                 ELSE /\ transcharptr' = transcharptr + 1
                      /\ isr_result' = TRUE
                      /\ sendchar' = thischar
                      /\ sent' = Append(sent, thischar)
                      /\ UNCHANGED << UART_transbuf, trans_is_flash >>
       ELSE /\ isr_result' = FALSE
            /\ sendchar' = NUL
            /\ UNCHANGED << UART_transbuf, transcharptr, trans_is_flash, sent >>
  /\ UNCHANGED << sendpc, message, message_P, queued, busy_at_call >>

UART_GetNextSendChar_ISR ==
  /\ GetNextSendChar
  /\ UNCHANGED NotSend

NextSend ==
  \/ \E msg \in Messages, is_P \in BOOLEAN : UART_QueueSend_Enter(msg, is_P)
  \/ UART_WaitForSendDone
  \/ UART_QueueSend_Install
  \/ UART_GetNextSendChar_ISR

\* Mutant: the loop of UART_WaitForSendDone runs inside one ATOMIC_BLOCK.
AtomicHeldBetweenPolls_InWait(pc) == pc = "wait"

\* Whether the main program, at pc, holds the atomic section from one step
\* to the next.  UART_WaitForSendDone has its only ATOMIC_BLOCK inside
\* UART_IsSendInProgress, and the block of UART_QueueSend is inside one step.
AtomicHeldBetweenPolls(pc) == FALSE

\* The transmit interrupt asks for the next character when interrupts can
\* come and there is something to send.
TransmitInterrupt ==
  /\ ~AtomicHeldBetweenPolls(sendpc)
  /\ UART_transbuf # NULL
  /\ UART_GetNextSendChar_ISR

NextSendIrq ==
  \/ \E msg \in Messages, is_P \in BOOLEAN : UART_QueueSend_Enter(msg, is_P)
  \/ UART_WaitForSendDone
  \/ UART_QueueSend_Install
  \/ TransmitInterrupt

(***************************************************************************)
(* ADC scheduler                                                           *)
(***************************************************************************)

Channels == 0 .. ADC_CHANNEL_COUNT - 1

\* The static initialisers, the converter as ADC_Init leaves it.
InitADC ==
  /\ ADC_idle = TRUE
  /\ ADC_needs_conversion = [c \in Channels |-> FALSE]
  /\ ADC_data_ready = [c \in Channels |-> FALSE]
  /\ ADC_data = [c \in Channels |-> 0]
  /\ admux = 0
  /\ adsc = FALSE
  /\ sample_found = FALSE
  /\ sample_data = 0
  /\ sample_channel = 0
  /\ adc_call = "init"
  /\ adc_mask = 0
  /\ adc_ready_order = << >>
  /\ adc_inflight = << >>
  /\ adc_discarded = 0
  /\ adc_read_order = << >>

\* channel_mask & (1 << cidx)
MaskBit(channel_mask, cidx) == (channel_mask \div (2 ^ cidx)) % 2 = 1

\* The scheduler's arrays as one record, for the loops below.
AdcState(idle, needs, ready, data) ==
  [idle |-> idle, needs |-> needs, ready |-> ready, data |-> data]

\* Mutant: the flags and values of unread results are left as they are.
ADC_ReInitBuffer_KeepsUnread ==
  AdcState(TRUE, [c \in Channels |-> FALSE], ADC_data_ready, ADC_data)

ADC_ReInitBuffer ==
  AdcState(TRUE, [c \in Channels |-> FALSE], [c \in Channels |-> FALSE],
           [c \in Channels |-> 0])

\* Mutant: a new request is accepted whether or not the scheduler is idle.
StartIsAccepted_Always(idle) == TRUE

\* ADC_StartConversion acts only when idle.
StartIsAccepted(idle) == idle

\* The loop of ADC_StartConversion from cidx on: sc is the record of the
\* arrays with need_first and first_channel.
RECURSIVE StartLoop(_, _, _)
StartLoop(cidx, channel_mask, sc) ==
  IF cidx >= ADC_CHANNEL_COUNT THEN sc
  ELSE IF MaskBit(channel_mask, cidx)
    THEN StartLoop(cidx + 1, channel_mask,
           [sc EXCEPT !.needs[cidx] = TRUE,
                      !.first_channel = IF sc.need_first THEN cidx ELSE @,
                      !.need_first = FALSE])
    ELSE StartLoop(cidx + 1, channel_mask, sc)

\* Mutant: the first pending channel is passed over and the second completed.
CompletesNow_Second(count) == count = 2

\* The channel whose conversion just finished is the first one pending.
CompletesNow(count) == count = 1

\* Mutant: the scheduler also goes idle with two channels pending.
WasLastSample_OffByOne(count) == 2 >= count

\* Nothing is left to convert.
WasLastSample(count) == 1 >= count

\* The loop of ADC_HousekeepingPoll from cidx on: pl is the record of the
\* arrays with count, next_channel and the channels completed; result is
\* what ADC_GetConversionResult returns.
RECURSIVE PollLoop(_, _, _)
PollLoop(cidx, result, pl) ==
  IF cidx >= ADC_CHANNEL_COUNT THEN pl
  ELSE IF pl.needs[cidx]
    THEN LET count == pl.count + 1
         IN IF CompletesNow(count)
              THEN PollLoop(cidx + 1, result,
                     [pl EXCEPT !.count = count,
                                !.needs[cidx] = FALSE,
                                !.ready[cidx] = TRUE,
                                !.data[cidx] = result,
                                !.completed = Append(@, cidx)])
            ELSE IF 2 = count
              THEN PollLoop(cidx + 1, result,
                     [pl EXCEPT !.count = count, !.next_channel = cidx])
            ELSE PollLoop(cidx + 1, result, [pl EXCEPT !.count = count])
    ELSE PollLoop(cidx + 1, result, pl)

\* ADC_ReadFromChannel: select the channel and set the start flag.  The
\* conversion joins those still awaited.
ADC_ReadFromChannel(channel_id, awaited) ==
  IF channel_id < ADC_CHANNEL_COUNT
    THEN /\ admux' = channel_id
         /\ adsc' = TRUE
         /\ adc_inflight' = Append(awaited, channel_id)
    ELSE /\ adc_inflight' = awaited
         /\ UNCHANGED << admux, adsc >>

ADC_IsADCBusy == adsc

ADC_StartConversion(channel_mask) ==
  /\ adc_call' = "start"
  /\ IF StartIsAccepted(ADC_idle)
       THEN LET sc == StartLoop(0, channel_mask,
                        [idle |-> ADC_ReInitBuffer.idle,
                         needs |-> ADC_ReInitBuffer.needs,
                         ready |-> ADC_ReInitBuffer.ready,
                         data |-> ADC_ReInitBuffer.data,
                         need_first |-> TRUE, first_channel |-> 0])
            IN /\ ADC_needs_conversion' = sc.needs
               /\ ADC_data_ready' = sc.ready
               /\ ADC_data' = sc.data
               /\ adc_mask' = channel_mask
               /\ adc_ready_order' = << >>
               /\ adc_discarded' =
                    Cardinality({c \in Channels : ADC_data_ready[c]})
               /\ adc_read_order' = << >>
               /\ IF ~sc.need_first
                    THEN /\ ADC_idle' = FALSE
                         /\ ADC_ReadFromChannel(sc.first_channel, adc_inflight)
                    ELSE /\ ADC_idle' = sc.idle
                         /\ UNCHANGED << admux, adsc, adc_inflight >>
       ELSE UNCHANGED << ADC_idle, ADC_needs_conversion, ADC_data_ready,
                         ADC_data, admux, adsc, adc_mask, adc_ready_order,
                         adc_inflight, adc_discarded, adc_read_order >>
  /\ UNCHANGED << sample_found, sample_data, sample_channel >>
  /\ UNCHANGED NotADC

ADC_HousekeepingPoll ==
  /\ adc_call' = "poll"
  /\ IF ~ADC_idle /\ ~ADC_IsADCBusy
       THEN \E result \in AdcResults :
              LET pl == PollLoop(0, result,
                          [needs |-> ADC_needs_conversion,
                           ready |-> ADC_data_ready,
                           data |-> ADC_data,
                           count |-> 0, next_channel |-> 0,
                           completed |-> << >>])
                  \* each ADC_GetConversionResult collects one conversion
                  awaited == IF pl.completed = << >> \/ adc_inflight = << >>
                               THEN adc_inflight
                               ELSE Tail(adc_inflight)
              IN /\ ADC_needs_conversion' = pl.needs
                 /\ ADC_data_ready' = pl.ready
                 /\ ADC_data' = pl.data
                 /\ adc_ready_order' = adc_ready_order \o pl.completed
                 /\ IF WasLastSample(pl.count)
                      THEN /\ ADC_idle' = TRUE
                           /\ adc_inflight' = awaited
                           /\ UNCHANGED << admux, adsc >>
                      ELSE /\ ADC_idle' = ADC_idle
                           /\ ADC_ReadFromChannel(pl.next_channel, awaited)
       ELSE UNCHANGED << ADC_idle, ADC_needs_conversion, ADC_data_ready,
                         ADC_data, admux, adsc, adc_ready_order, adc_inflight >>
  /\ UNCHANGED << sample_found, sample_data, sample_channel, adc_mask,
                  adc_discarded, adc_read_order >>
  /\ UNCHANGED NotADC

\* The converter finishes: the start flag reads as zero again.
ADC_ConversionComplete ==
  /\ adsc
  /\ adsc' = FALSE
  /\ adc_call' = "hw"
  /\ UNCHANGED << ADC_idle, ADC_needs_conversion, ADC_data_ready, ADC_data,
                  admux, sample_found, sample_data, sample_channel, adc_mask,
                  adc_ready_order, adc_inflight, adc_discarded,
                  adc_read_order >>
  /\ UNCHANGED NotADC

\* Mutant: the highest ready channel is given out, not the lowest.
ReadLoop_HighestFirst(cidx, rd) ==
  IF \E c \in Channels : rd.ready[c]
    THEN LET c == CHOOSE c \in Channels :
                    rd.ready[c] /\ \A d \in Channels : rd.ready[d] => d <= c
         IN [rd EXCEPT !.ready[c] = FALSE, !.found = TRUE,
                       !.data = ADC_data[c], !.channel_id = c]
    ELSE rd

\* The loop of ADC_ReadPendingSample from cidx on.
RECURSIVE ReadLoop(_, _)
ReadLoop(cidx, rd) ==
  IF rd.found \/ cidx >= ADC_CHANNEL_COUNT THEN rd
  ELSE IF rd.ready[cidx]
    THEN ReadLoop(cidx + 1,
           [rd EXCEPT !.ready[cidx] = FALSE, !.found = TRUE,
                      !.data = ADC_data[cidx], !.channel_id = cidx])
    ELSE ReadLoop(cidx + 1, rd)

ADC_ReadPendingSample ==
  /\ adc_call' = "read"
  /\ LET rd == IF ADC_idle
                 THEN ReadLoop(0, [ready |-> ADC_data_ready, found |-> FALSE,
                                   data |-> sample_data,
                                   channel_id |-> sample_channel])
                 ELSE [ready |-> ADC_data_ready, found |-> FALSE,
                       data |-> sample_data, channel_id |-> sample_channel]
     IN /\ ADC_data_ready' = rd.ready
        /\ sample_found' = rd.found
        /\ sample_data' = rd.data
        /\ sample_channel' = rd.channel_id
        /\ adc_read_order' = IF rd.found
                               THEN Append(adc_read_order, rd.channel_id)
                               ELSE adc_read_order
  /\ UNCHANGED << ADC_idle, ADC_needs_conversion, ADC_data, admux, adsc,
                  adc_mask, adc_ready_order, adc_inflight, adc_discarded >>
  /\ UNCHANGED NotADC

NextADC ==
  \/ \E channel_mask \in ChannelMasks : ADC_StartConversion(channel_mask)
  \/ ADC_HousekeepingPoll
  \/ ADC_ConversionComplete
  \/ ADC_ReadPendingSample

(***************************************************************************)
(* Command parser (NeurApp_Parser)                                         *)
(***************************************************************************)

NEURAPP_CMD_CHARS == 3
\* uint16_t
UInt16 == 65536

\* Character codes the parser compares with.
Ch_a == 97
Ch_z == 122
Ch_A == 65
Ch_Z == 90
Ch_0 == 48
Ch_9 == 57
Ch_Space == 32
Ch_Question == 63

\* cmd_help = { 'H', 'L', 'P' }
cmd_help == << 72, 76, 80 >>

\* The parser object: the fields of NeurApp_Parser.
ParserFields(hc, name, a1, a2, found) ==
  [have_command |-> hc, this_cmdname |-> name, this_arg1 |-> a1,
   this_arg2 |-> a2, argsfound |-> found]

This == ParserFields(have_command, this_cmdname, this_arg1, this_arg2, argsfound)

\* Mutant: the two arguments are left as the line before set them.
ResetState_KeepsArgs(p) ==
  ParserFields(FALSE, [i \in 1 .. NEURAPP_CMD_CHARS |-> NUL],
               p.this_arg1, p.this_arg2, 0)

\* NeurApp_Parser::ResetState on the object p.
ResetState(p) ==
  ParserFields(FALSE, [i \in 1 .. NEURAPP_CMD_CHARS |-> NUL], 0, 0, 0)

\* Mutant: a lower-case letter is stored as it came.
ToUpper_Keeps(thischar) == thischar

\* thischar -= 'a'; thischar += 'A'
ToUpper(thischar) == thischar - Ch_a + Ch_A

\* Mutant: the question mark is taken for one more unknown character.
IsQuestion_Never(thischar) == FALSE

\* '?' == thischar
IsQuestion(thischar) == thischar = Ch_Question

\* The classification of one character, and the character as it is stored.
Classify(c) ==
  IF Ch_a <= c /\ Ch_z >= c
    THEN [is_letter |-> TRUE, is_digit |-> FALSE, is_white |-> FALSE,
          is_question |-> FALSE, thischar |-> ToUpper(c)]
  ELSE IF Ch_A <= c /\ Ch_Z >= c
    THEN [is_letter |-> TRUE, is_digit |-> FALSE, is_white |-> FALSE,
          is_question |-> FALSE, thischar |-> c]
  ELSE IF Ch_0 <= c /\ Ch_9 >= c
    THEN [is_letter |-> FALSE, is_digit |-> TRUE, is_white |-> FALSE,
          is_question |-> FALSE, thischar |-> c]
  ELSE IF Ch_Space >= c
    THEN [is_letter |-> FALSE, is_digit |-> FALSE, is_white |-> TRUE,
          is_question |-> FALSE, thischar |-> c]
  ELSE [is_letter |-> FALSE, is_digit |-> FALSE, is_white |-> FALSE,
        is_question |-> IsQuestion(c), thischar |-> c]

\* The first switch of the loop: the state after a character of class k.
NextState(state, k) ==
  CASE state = "PSTATE_PREAMBLE" ->
         IF k.is_letter THEN "PSTATE_OPCODE"
         ELSE IF ~k.is_white THEN "PSTATE_ERROR" ELSE state
    [] state = "PSTATE_OPCODE" ->
         IF k.is_white THEN "PSTATE_FIRSTGAP"
         ELSE IF ~k.is_letter THEN "PSTATE_ERROR" ELSE state
    [] state = "PSTATE_FIRSTGAP" ->
         IF k.is_digit THEN "PSTATE_FIRSTARG"
         ELSE IF ~k.is_white THEN "PSTATE_ERROR" ELSE state
    [] state = "PSTATE_FIRSTARG" ->
         IF k.is_white THEN "PSTATE_SECONDGAP"
         ELSE IF ~k.is_digit THEN "PSTATE_ERROR" ELSE state
    [] state = "PSTATE_SECONDGAP" ->
         IF k.is_digit THEN "PSTATE_SECONDARG"
         ELSE IF ~k.is_white THEN "PSTATE_ERROR" ELSE state
    [] state = "PSTATE_SECONDARG" ->
         IF k.is_white THEN "PSTATE_TAIL"
         ELSE IF ~k.is_digit THEN "PSTATE_ERROR" ELSE state
    [] state = "PSTATE_TAIL" ->
         IF ~k.is_white THEN "PSTATE_ERROR" ELSE state
    [] OTHER -> state

\* Mutant: the argument stops at 65535 instead of wrapping.
AddDigit_Saturating(arg, thischar) ==
  IF arg * 10 + (thischar - Ch_0) >= UInt16 THEN UInt16 - 1
  ELSE arg * 10 + (thischar - Ch_0)

\* arg *= 10; scratch = thischar; scratch -= '0'; arg += scratch, in uint16_t
AddDigit(arg, thischar) == (arg * 10 + (thischar - Ch_0)) % UInt16

\* One round of the loop: ps holds the locals (state, opidx, saw_question),
\* the object (p) and the states passed through.
ScanChar(ps, c) ==
  LET k == Classify(c)
      state == NextState(ps.state, k)
      seen == ps.saw_question \/ k.is_question
      after ==
        CASE state = "PSTATE_OPCODE" ->
               IF ps.opidx < NEURAPP_CMD_CHARS
                 THEN [ps EXCEPT !.state = state,
                                 !.p.have_command = TRUE,
                                 !.p.this_cmdname[ps.opidx + 1] = k.thischar,
                                 !.opidx = ps.opidx + 1]
                 ELSE [ps EXCEPT !.state = "PSTATE_ERROR",
                                 !.p.have_command = TRUE]
          [] state = "PSTATE_FIRSTARG" ->
               [ps EXCEPT !.state = state,
                          !.p.argsfound = 1,
                          !.p.this_arg1 = AddDigit(@, k.thischar)]
          [] state = "PSTATE_SECONDARG" ->
               [ps EXCEPT !.state = state,
                          !.p.argsfound = 2,
                          !.p.this_arg2 = AddDigit(@, k.thischar)]
          [] OTHER -> [ps EXCEPT !.state = state]
  IN [after EXCEPT !.saw_question = seen,
                   !.states = Append(ps.states, after.state)]

\* The loop of ParseInputLine from rawidx on (the line ends at its NUL).
RECURSIVE ScanFrom(_, _, _)
ScanFrom(line, rawidx, ps) ==
  IF rawidx > Len(line) THEN ps
  ELSE ScanFrom(line, rawidx + 1, ScanChar(ps, line[rawidx]))

\* NeurApp_Parser::ParseInputLine on the object p: the object and the value
\* returned, with the states passed through.
ParseResult(p, line) ==
  LET ps == ScanFrom(line, 1,
              [state |-> "PSTATE_PREAMBLE", opidx |-> 0, saw_question |-> FALSE,
               p |-> ResetState(p), states |-> << >>])
      scanned_ok == ps.state # "PSTATE_ERROR"
      overridden == [ResetState(ps.p) EXCEPT !.have_command = TRUE,
                                             !.this_cmdname = cmd_help]
      ok == IF ps.saw_question THEN TRUE ELSE scanned_ok
      obj == IF ps.saw_question THEN overridden ELSE ps.p
  IN [p |-> IF ok THEN obj ELSE ResetState(obj), was_ok |-> ok,
      states |-> ps.states]

\* The characters of the lines: two letters, two digits, a blank, the
\* question mark and one more punctuation character (a tab is in use as a
\* separator).
Letters == {97, 66}
Digits == {48, 55}
Alphabet == Letters \cup Digits \cup {32, 63, 33}

\* The plain command lines: an opcode of NEURAPP_CMD_CHARS letters and up to
\* two arguments, a tab before the first and a blank before the second (the
\* first of two arguments has one digit here).
Opcodes == [1 .. NEURAPP_CMD_CHARS -> Letters]
NumTokens == UNION {[1 .. n -> Digits] : n \in 1 .. MaxDigits}
CommandLines ==
  Opcodes
  \cup {op \o << 9 >> \o n1 : op \in Opcodes, n1 \in NumTokens}
  \cup {op \o << 9 >> \o << d >> \o << 32 >> \o n2 :
          op \in Opcodes, d \in Digits, n2 \in NumTokens}

\* A line with a blank before and after it, and with one more argument.
Padded(line) == << 32 >> \o line \o << 32 >>
WithArg(line, n) == line \o << 32 >> \o n

\* A line with one character more, or one less.
InsertAt(line, i, c) == SubSeq(line, 1, i) \o << c >> \o SubSeq(line, i + 1, Len(line))
DeleteAt(line, i) == SubSeq(line, 1, i - 1) \o SubSeq(line, i + 1, Len(line))

\* Every line of at most MaxShortLen characters.
ShortLines == UNION {[1 .. n -> Alphabet] : n \in 0 .. MaxShortLen}

\* The lines a later call is given: empty, unparsable, a help request,
\* a short opcode, a command with both arguments.
FollowLines ==
  {<< >>, << 33 >>, << 63 >>, << 66, 97, 32, 55 >>,
   << 97, 66, 97, 32, 55, 48, 32, 48, 55 >>}

\* The constructor of the parser; the caller's variables start out as zero.
InitParse ==
  /\ have_command = FALSE
  /\ this_cmdname = [i \in 1 .. NEURAPP_CMD_CHARS |-> NUL]
  /\ this_arg1 = 0
  /\ this_arg2 = 0
  /\ argsfound = 0
  /\ rawline = << >>
  /\ was_ok = FALSE
  /\ cmd = [i \in 1 .. NEURAPP_CMD_CHARS |-> NUL]
  /\ arg1 = 0
  /\ arg2 = 0
  /\ argcount = 0
  /\ was_new = FALSE
  /\ scan_states = << >>
  /\ parse_call = "init"
  /\ nparsed = 0
  /\ nqueries = 0

ParseInputLine(line) ==
  /\ nparsed < MaxParses
  /\ \E r \in {ParseResult(This, line)} :
        /\ have_command' = r.p.have_command
        /\ this_cmdname' = r.p.this_cmdname
        /\ this_arg1' = r.p.this_arg1
        /\ this_arg2' = r.p.this_arg2
        /\ argsfound' = r.p.argsfound
        /\ was_ok' = r.was_ok
        /\ scan_states' = r.states
  /\ rawline' = line
  /\ parse_call' = "parse"
  /\ nparsed' = nparsed + 1
  /\ nqueries' = 0
  /\ UNCHANGED << cmd, arg1, arg2, argcount, was_new >>
  /\ UNCHANGED NotParse

\* Mutant: the flag is left set after the command was copied out.
FlagAfterQuery_Kept(flag) == flag

\* have_command = false, in WasNewCommand
FlagAfterQuery(flag) == FALSE

WasNewCommand ==
  /\ nqueries < MaxQueries
  /\ was_new' = have_command
  /\ IF have_command
       THEN /\ have_command' = FlagAfterQuery(have_command)
            /\ cmd' = this_cmdname
            /\ arg1' = this_arg1
            /\ arg2' = this_arg2
            /\ argcount' = argsfound
       ELSE UNCHANGED << have_command, cmd, arg1, arg2, argcount >>
  /\ parse_call' = "query"
  /\ nqueries' = nqueries + 1
  /\ UNCHANGED << this_cmdname, this_arg1, this_arg2, argsfound, rawline,
                  was_ok, scan_states, nparsed >>
  /\ UNCHANGED NotParse

\* The first call is given a plain command line, one of them padded, given
\* one more argument, or with one character inserted or removed, or a short
\* line; a later call one of FollowLines.
NextParse ==
  \/ nparsed = 0 /\ \E line \in CommandLines \cup ShortLines : ParseInputLine(line)
  \/ nparsed = 0 /\ \E line \in CommandLines : ParseInputLine(Padded(line))
  \/ nparsed = 0 /\ \E line \in CommandLines, n \in NumTokens :
       ParseInputLine(WithArg(line, n))
  \/ nparsed = 0 /\ \E line \in CommandLines :
       \E i \in 0 .. Len(line), c \in Alphabet : ParseInputLine(InsertAt(line, i, c))
  \/ nparsed = 0 /\ \E line \in CommandLines :
       \E i \in 1 .. Len(line) : ParseInputLine(DeleteAt(line, i))
  \/ nparsed > 0 /\ \E line \in FollowLines : ParseInputLine(line)
  \/ WasNewCommand

\* Decimal tokens of up to MaxDecimal digits, long enough to pass 65535.
DecimalDigits == {51, 53, 54}
DecimalTokens == UNION {[1 .. n -> DecimalDigits] : n \in 1 .. MaxDecimal}
DecimalOpcode == [i \in 1 .. NEURAPP_CMD_CHARS |-> 97]

\* One line is parsed, an opcode with a long first or second argument, and
\* the caller asks for the command.
NextDecimal ==
  \/ nparsed = 0 /\ \E n1 \in DecimalTokens :
       ParseInputLine(DecimalOpcode \o << 32 >> \o n1)
  \/ nparsed = 0 /\ \E n2 \in DecimalTokens :
       ParseInputLine(DecimalOpcode \o << 32, 55, 32 >> \o n2)
  \/ WasNewCommand

(***************************************************************************)
(* The application object (neurapp): the event handler table, the hooks    *)
(* it calls and the command dispatch.                                      *)
(***************************************************************************)

\* The built-in command names.
cmd_ident == << 73, 68, 81 >>
cmd_reset == << 73, 78, 73 >>
cmd_echo == << 69, 67, 72 >>
cmd_debug_mem == << 90, 90, 77 >>
cmd_debug_evticks == << 90, 90, 69 >>

NEURAPP_DEFAULT_ECHO == TRUE

\* The event handler objects an application registers.
HandlerIds == {1, 2}

\* One call the application object makes: a hook of handler h, a user hook
\* or a UART function (h = 0), with the arguments that matter.
Call(fn, h, op, a1, a2) == << fn, h, op, a1, a2 >>

CallFn(c) == c[1]

CallHandler(c) == c[2]

Hook(fn, h) == Call(fn, h, 0, 0, 0)

\* neurapp_event_handler_row_t and neurapp_cmd_list_row_t; the terminating
\* rows (NULL handler, negative argcount) are the ends of the sequences.
HandlerRow(handler, cmdlist) == << handler, cmdlist >>

RowHandler(row) == row[1]

RowCmdlist(row) == row[2]

CmdRow(name, opcode, nargs) == << name, opcode, nargs >>

CmdName(entry) == entry[1]

CmdOpcode(entry) == entry[2]

CmdArgcount(entry) == entry[3]

\* Mutant: every row counts as a new handler.
IsDistinctRow_Always(rows, hidx) == TRUE

\* (1 > hidx) || (event_lut[hidx].handler != event_lut[hidx-1].handler)
IsDistinctRow(rows, hidx) ==
  \/ 1 > hidx
  \/ RowHandler(rows[hidx + 1]) # RowHandler(rows[hidx])

\* Mutant: the soft reset skips a row whose handler is that of the row before.
InitStateRow_Distinct(rows, hidx) == IsDistinctRow(rows, hidx)

\* ReInitState calls InitState for every row.
InitStateRow(rows, hidx) == TRUE

\* for (hidx = 0; NULL != event_lut[hidx].handler; hidx++), calling fn of
\* the handler of each row (dedup = FALSE) or of each row that differs from
\* the row before it (dedup = TRUE).
RECURSIVE HookLoop(_, _, _, _)
HookLoop(rows, hidx, fn, dedup) ==
  IF hidx >= Len(rows)
    THEN << >>
    ELSE (IF ~dedup \/ IsDistinctRow(rows, hidx)
            THEN << Hook(fn, RowHandler(rows[hidx + 1])) >>
            ELSE << >>)
         \o HookLoop(rows, hidx + 1, fn, dedup)

RECURSIVE InitStateLoop(_, _)
InitStateLoop(rows, hidx) ==
  IF hidx >= Len(rows)
    THEN << >>
    ELSE (IF InitStateRow(rows, hidx)
            THEN << Hook("InitState", RowHandler(rows[hidx + 1])) >>
            ELSE << >>)
         \o InitStateLoop(rows, hidx + 1)

\* The report queue's indices.
Queue(rd, wr, count, running) ==
  [report_count |-> count,
   report_read_ptr |-> rd,
   report_write_ptr |-> wr,
   transmit_running |-> running]

ThisQueue == Queue(report_read_ptr, report_write_ptr, report_count, transmit_running)

\* The calls of ReInitState, after the parser and the queue were reset.
ReInitCalls(lut) ==
  << Hook("UART_WaitForSendDone", 0), Hook("UserInitState", 0) >>
  \o (IF lut # NULL THEN InitStateLoop(lut[1], 0) ELSE << >>)

\* The calls of DoInitialSetup.
SetupCalls(lut) ==
  << Hook("UserInitHardware", 0) >>
  \o (IF lut # NULL THEN HookLoop(lut[1], 0, "InitHardware", TRUE) ELSE << >>)
  \o ReInitCalls(lut)

CommandMatch(first, second) ==
  \A cidx \in 1 .. NEURAPP_CMD_CHARS : first[cidx] = second[cidx]

\* Mutant: a name match with the wrong argument count does not end the scan.
FoundAfterMatch_OnlyIfArgs(args_ok) == args_ok

\* found = true, on the first entry whose name matches
FoundAfterMatch(args_ok) == TRUE

\* The scan of one command list from entry cidx: whether it found the name,
\* whether the command is bad, and the handler call it made.
RECURSIVE ScanCmds(_, _, _, _, _, _, _)
ScanCmds(handler, cmdlist, cidx, thiscommand, a1, a2, argc) ==
  IF cidx >= Len(cmdlist)
    THEN [bad_command |-> FALSE, calls |-> << >>, found |-> FALSE]
    ELSE IF CommandMatch(thiscommand, CmdName(cmdlist[cidx + 1]))
      THEN LET args_ok == argc = CmdArgcount(cmdlist[cidx + 1])
               here == IF args_ok
                         THEN << Call("HandleCommand", handler,
                                      CmdOpcode(cmdlist[cidx + 1]), a1, a2) >>
                         ELSE << >>
           IN  IF FoundAfterMatch(args_ok)
                 THEN [bad_command |-> ~args_ok, calls |-> here, found |-> TRUE]
                 ELSE \* only a mutant gets here
                      LET rest == ScanCmds(handler, cmdlist, cidx + 1,
                                           thiscommand, a1, a2, argc)
                      IN  [bad_command |-> rest.bad_command \/ ~args_ok,
                           calls |-> here \o rest.calls,
                           found |-> rest.found]
      ELSE ScanCmds(handler, cmdlist, cidx + 1, thiscommand, a1, a2, argc)

\* The scan of the handler table from row hidx.
RECURSIVE ScanRows(_, _, _, _, _, _)
ScanRows(rows, hidx, thiscommand, a1, a2, argc) ==
  IF hidx >= Len(rows)
    THEN [bad_command |-> FALSE, calls |-> << >>, found |-> FALSE]
    ELSE LET cmdlist == RowCmdlist(rows[hidx + 1])
             here == IF cmdlist # NULL
                       THEN ScanCmds(RowHandler(rows[hidx + 1]), cmdlist[1], 0,
                                     thiscommand, a1, a2, argc)
                       ELSE [bad_command |-> FALSE, calls |-> << >>, found |-> FALSE]
         IN  IF here.found
               THEN here
               ELSE LET rest == ScanRows(rows, hidx + 1, thiscommand, a1, a2, argc)
                    IN  [bad_command |-> here.bad_command \/ rest.bad_command,
                         calls |-> here.calls \o rest.calls,
                         found |-> rest.found]

\* The calls that end the handling of a command.
BadCommandCalls(bad_command) ==
  IF bad_command THEN << Call("PrintShortHelp", 0, 0, 0, 0) >> ELSE << >>

\* What DoPolling does with a command the parser handed over: the calls it
\* makes, whether the state is soft-reset, and the echo setting afterwards.
CommandEffect(lut, thiscommand, a1, a2, argc, echo, line) ==
  LET none == [calls |-> << >>, echo |-> echo, reinit |-> FALSE]
  IN  IF CommandMatch(thiscommand, cmd_help)
        THEN [none EXCEPT !.calls =
                << Hook("HelpBanner", 0), Hook("BuiltinHelp", 0) >>
                \o HookLoop(lut[1], 0, "GetHelpScreen", TRUE)]
      ELSE IF CommandMatch(thiscommand, cmd_ident)
        THEN [none EXCEPT !.calls = << Hook("IdentityMessage", 0) >>]
      ELSE IF CommandMatch(thiscommand, cmd_reset)
        THEN [none EXCEPT !.calls = ReInitCalls(lut), !.reinit = TRUE]
      ELSE IF CommandMatch(thiscommand, cmd_echo)
        THEN IF 1 = argc
               THEN [none EXCEPT !.echo = (a1 # 0)]
               ELSE [none EXCEPT !.calls = BadCommandCalls(TRUE)]
      ELSE IF CommandMatch(thiscommand, cmd_debug_mem)
        THEN [none EXCEPT !.calls = << Hook("DebugMemory", 0) >>]
      ELSE IF CommandMatch(thiscommand, cmd_debug_evticks)
        THEN [none EXCEPT !.calls = << Hook("DebugTicks", 0) >>]
      ELSE CHOOSE e \in
             { [none EXCEPT !.calls =
                  s.calls \o BadCommandCalls(s.bad_command \/ ~s.found)] :
               s \in {ScanRows(lut[1], 0, thiscommand, a1, a2, argc)} } : TRUE

\* The first part of DoPolling, for a line that ParseInputLine turned into
\* r: the calls made, the parser afterwards, whether the state was
\* soft-reset, and the echo setting afterwards.
LineEffect(lut, r, echo, line) ==
  LET echoed == IF echo
                  THEN << Hook("UART_QueueSend_line", 0), Hook("UART_QueueSend_crlf", 0) >>
                  ELSE << >>
      done == << Hook("UART_DoneWithLine", 0) >>
  IN  IF ~r.was_ok
        THEN [calls |-> echoed \o << Call("PrintShortHelp", 0, 0, 0, 0) >> \o done,
              echo |-> echo,
              p |-> r.p,
              reinit |-> FALSE]
      ELSE IF ~r.p.have_command
        THEN [calls |-> echoed \o done, echo |-> echo, p |-> r.p, reinit |-> FALSE]
      ELSE CHOOSE l \in
             { [calls |-> echoed \o e.calls \o done,
                echo |-> e.echo,
                p |-> IF e.reinit
                        THEN ResetState([r.p EXCEPT !.have_command = FlagAfterQuery(TRUE)])
                        ELSE [r.p EXCEPT !.have_command = FlagAfterQuery(TRUE)],
                reinit |-> e.reinit] :
               e \in {CommandEffect(lut, r.p.this_cmdname, r.p.this_arg1,
                                    r.p.this_arg2, r.p.argsfound, echo, line)} } : TRUE

\* Mutant: the pointer wraps one slot early.
NextSlot_WrapsEarly(ptr) == IF ptr + 2 >= QueueLength THEN 0 ELSE ptr + 1

\* report_read_ptr++ and report_write_ptr++, wrapping
NextSlot(ptr) == IF ptr + 1 >= QueueLength THEN 0 ELSE ptr + 1

\* Mutant: the answer of UART_IsSendInProgress is ignored.
ChannelFree_Always(send_in_progress) == TRUE

\* ! UART_IsSendInProgress()
ChannelFree(send_in_progress) == ~send_in_progress

\* "First, send the next pending string if we can."
TransmitEffect(q, send_in_progress) ==
  IF 0 < q.report_count /\ ChannelFree(send_in_progress)
    THEN LET q1 == IF q.transmit_running
                     THEN Queue(NextSlot(q.report_read_ptr), q.report_write_ptr,
                                q.report_count - 1, FALSE)
                     ELSE q
         IN  IF 0 < q1.report_count
               THEN [calls |-> << Call("UART_QueueSend_report", 0, q1.report_read_ptr, 0, 0) >>,
                     q |-> [q1 EXCEPT !.transmit_running = TRUE]]
               ELSE [calls |-> << >>, q |-> q1]
    ELSE [calls |-> << >>, q |-> q]

\* while ( (report_count < NEURAPP_REPORT_QUEUE_LENGTH)
\*   && handler->MakeReportString( reportqueue[report_write_ptr] ) )
\* for a handler that has offers reports to make.
\* Mutant: the handler is asked whether or not a slot is free.
QueueHasRoom_Always(count) == TRUE

\* report_count < NEURAPP_REPORT_QUEUE_LENGTH
QueueHasRoom(count) == count < QueueLength

RECURSIVE ReportWhile(_, _, _)
ReportWhile(q, handler, offers) ==
  IF ~QueueHasRoom(q.report_count)
    THEN [calls |-> << >>, q |-> q]
    ELSE IF offers = 0
      THEN [calls |-> << Call("MakeReportString", handler, q.report_write_ptr, 0, 0) >>,
            q |-> q]
      ELSE LET rest == ReportWhile(
                         [q EXCEPT !.report_count = @ + 1,
                                   !.report_write_ptr = NextSlot(@)],
                         handler, offers - 1)
           IN  [calls |-> << Call("MakeReportString", handler, q.report_write_ptr, 1, 0) >>
                          \o rest.calls,
                q |-> rest.q]

\* "Second, queue new report strings.", from row hidx.
RECURSIVE ReportLoop(_, _, _, _)
ReportLoop(rows, hidx, q, offers) ==
  IF hidx >= Len(rows)
    THEN [calls |-> << >>, q |-> q]
    ELSE IF IsDistinctRow(rows, hidx)
      THEN LET here == ReportWhile(q, RowHandler(rows[hidx + 1]), offers)
               rest == ReportLoop(rows, hidx + 1, here.q, offers)
           IN  [calls |-> here.calls \o rest.calls, q |-> rest.q]
      ELSE ReportLoop(rows, hidx + 1, q, offers)

\* The registered table: handlers hs, command lists cl.
Registry(hs, cl) == Ptr([i \in 1 .. Len(hs) |-> HandlerRow(hs[i], cl[i])])

\* A DoUpdate_ISR invocation under way: in the HandleTick_ISR loop or in the
\* HandlePollHighPriority_ISR loop at row hidx, and the handlers it called.
Frame(pc, hidx, ticks, polls) == << pc, hidx, ticks, polls >>

FramePc(f) == f[1]

FrameHidx(f) == f[2]

FrameTicks(f) == f[3]

FramePolls(f) == f[4]

\* The members the constructor leaves uninitialized hold anything.
InitApp ==
  /\ event_lut = NULL
  /\ echo_state = NEURAPP_DEFAULT_ECHO
  /\ report_read_ptr = 0
  /\ report_write_ptr = 0
  /\ report_count \in 0 .. 1
  /\ transmit_running \in BOOLEAN
  /\ skipped_ticks_short_total = 0
  /\ skipped_ticks_long_total = 0
  /\ in_isr \in BOOLEAN
  /\ long_tasks_running \in BOOLEAN
  /\ isr_stack = << >>
  /\ app_call = "new"
  /\ app_line = NULL
  /\ app_busy = FALSE
  /\ app_offers = 0
  /\ calls = << >>
  /\ nupdates = 0

ParserUnchanged == UNCHANGED << have_command, this_cmdname, this_arg1, this_arg2, argsfound >>

SetParser(p) ==
  /\ have_command' = p.have_command
  /\ this_cmdname' = p.this_cmdname
  /\ this_arg1' = p.this_arg1
  /\ this_arg2' = p.this_arg2
  /\ argsfound' = p.argsfound

SetQueue(q) ==
  /\ report_read_ptr' = q.report_read_ptr
  /\ report_write_ptr' = q.report_write_ptr
  /\ report_count' = q.report_count
  /\ transmit_running' = q.transmit_running

\* Called once, after system reset, before the timer interrupt is enabled.
DoInitialSetup_App(eventdefs) ==
  /\ app_call = "new"
  /\ event_lut' = eventdefs
  /\ in_isr' = FALSE
  /\ long_tasks_running' = FALSE
  /\ SetParser(ResetState(This))
  /\ SetQueue(Queue(0, 0, 0, FALSE))
  /\ skipped_ticks_short_total' = 0
  /\ skipped_ticks_long_total' = 0
  /\ calls' = SetupCalls(eventdefs)
  /\ app_call' = "DoInitialSetup"
  /\ app_line' = NULL
  /\ app_busy' = FALSE
  /\ app_offers' = 0
  /\ UNCHANGED << echo_state, isr_stack, nupdates >>

DoInitialSetup(eventdefs) ==
  /\ DoInitialSetup_App(eventdefs)
  /\ UNCHANGED NotApp

\* The soft reset, called from the main loop.
ReInitState_App ==
  /\ app_call # "new"
  /\ isr_stack = << >>
  /\ SetParser(ResetState(This))
  /\ SetQueue(Queue(0, 0, 0, FALSE))
  /\ skipped_ticks_short_total' = 0
  /\ skipped_ticks_long_total' = 0
  /\ calls' = ReInitCalls(event_lut)
  /\ app_call' = "ReInitState"
  /\ app_line' = NULL
  /\ app_busy' = FALSE
  /\ app_offers' = 0
  /\ UNCHANGED << event_lut, echo_state, in_isr, long_tasks_running, isr_stack, nupdates >>

ReInitState ==
  /\ ReInitState_App
  /\ UNCHANGED NotApp

\* One call from the main loop; gotline is what UART_GetNextLine returns,
\* send_in_progress what UART_IsSendInProgress returns, and every handler
\* has offers reports to make.
DoPolling_AfterLine(gotline, send_in_progress, offers) ==
  /\ app_call # "new"
  /\ isr_stack = << >>
  /\ \E r \in {IF gotline # NULL THEN ParseResult(This, gotline[1]) ELSE NULL} :
     \E l \in {IF gotline # NULL
                 THEN LineEffect(event_lut, r, echo_state, gotline[1])
                 ELSE [calls |-> << >>, echo |-> echo_state, p |-> This, reinit |-> FALSE]} :
     \E t \in {TransmitEffect(IF l.reinit THEN Queue(0, 0, 0, FALSE) ELSE ThisQueue,
                              send_in_progress)} :
     \E g \in {ReportLoop(event_lut[1], 0, t.q, offers)} :
        /\ SetParser(l.p)
        /\ echo_state' = l.echo
        /\ SetQueue(g.q)
        /\ skipped_ticks_short_total' = IF l.reinit THEN 0 ELSE skipped_ticks_short_total
        /\ skipped_ticks_long_total' = IF l.reinit THEN 0 ELSE skipped_ticks_long_total
        /\ calls' = l.calls
                    \o HookLoop(event_lut[1], 0, "SaveReportState_Fast", FALSE)
                    \o t.calls
                    \o g.calls
                    \o HookLoop(event_lut[1], 0, "HandlePolling", TRUE)
                    \o << Hook("UserUpdatePoll", 0) >>
  /\ app_call' = "DoPolling"
  /\ app_line' = gotline
  /\ app_busy' = send_in_progress
  /\ app_offers' = offers
  /\ UNCHANGED << event_lut, in_isr, long_tasks_running, isr_stack, nupdates >>

\* DoPolling, with what UART_GetNextLine returned as an input.
DoPolling(gotline, send_in_progress, offers) ==
  /\ DoPolling_AfterLine(gotline, send_in_progress, offers)
  /\ UNCHANGED NotApp

\* Everything but the application object and the line buffer.
NotAppRecv == << sendvars, adcvars, rawline, was_ok, cmd, arg1, arg2,
                 argcount, was_new, scan_states, parse_call, nparsed,
                 nqueries, atomicvars, timervars, adcmainvars, queuevars,
                 uartvars, emuvars >>

\* Mutant: the line is released only when it held a command.
LineIsReleased_IfParsed(made) ==
  \E k \in 1 .. Len(made) : CallFn(made[k]) \in {"ReInitState", "HandleCommand"}

\* "UART_DoneWithLine();" is among the calls made.
LineIsReleased(made) ==
  \E k \in 1 .. Len(made) : CallFn(made[k]) = "UART_DoneWithLine"

\* DoPolling, first step: "thisline = UART_GetNextLine();".  Characters may
\* arrive between this and the next step.
DoPolling_GetNextLine ==
  /\ app_call \notin {"new", "DoPolling_line"}
  /\ isr_stack = << >>
  /\ app_call' = "DoPolling_line"
  /\ thisline' = NextLineResult
  /\ thisline_seen' =
       IF NextLineResult = NULL THEN NULL
       ELSE << Slot(UART_recvlines, oldestrow), overruns >>
  /\ UNCHANGED << UART_recvlines, rowcount, oldestrow, newestrow, recvcharptr,
                  saw_cr, uart_filter_empty_lines, nrecv, lastchar, overruns >>
  /\ UNCHANGED << event_lut, echo_state, report_read_ptr, report_write_ptr,
                  report_count, transmit_running, in_isr, long_tasks_running,
                  skipped_ticks_short_total, skipped_ticks_long_total,
                  have_command, this_cmdname, this_arg1, this_arg2, argsfound,
                  calls, app_line, app_busy, app_offers, isr_stack, nupdates >>
  /\ UNCHANGED NotAppRecv

\* DoPolling, the rest: the line, whose text is text, is parsed and acted on
\* and released; then reports and polling.
DoPolling_Line(text, send_in_progress, offers) ==
  /\ app_call = "DoPolling_line"
  /\ (text = NULL) <=> (thisline = NULL)
  /\ DoPolling_AfterLine(text, send_in_progress, offers)
  /\ IF LineIsReleased(calls')
       THEN /\ IF 0 < rowcount
                 THEN /\ oldestrow' = AndLineMask(oldestrow + 1)
                      /\ rowcount' = rowcount - 1
                 ELSE UNCHANGED << oldestrow, rowcount >>
            /\ thisline' = NULL
            /\ thisline_seen' = NULL
       ELSE UNCHANGED << oldestrow, rowcount, thisline, thisline_seen >>
  /\ UNCHANGED << UART_recvlines, newestrow, recvcharptr, saw_cr,
                  uart_filter_empty_lines, nrecv, lastchar, overruns >>
  /\ UNCHANGED NotAppRecv

Top == isr_stack[Len(isr_stack)]

Below == SubSeq(isr_stack, 1, Len(isr_stack) - 1)

\* Mutant: the second half runs whatever long_tasks_running says.
EnterLongTasks_NoSkip(stack, ticks) ==
  /\ long_tasks_running' = TRUE
  /\ isr_stack' = Append(stack, Frame("poll", 0, ticks, << >>))
  /\ UNCHANGED skipped_ticks_long_total

\* "if (long_tasks_running) ... else { long_tasks_running = true; ...", for
\* an invocation whose first half called ticks.
EnterLongTasks(stack, ticks) ==
  IF long_tasks_running
    THEN /\ skipped_ticks_long_total' = skipped_ticks_long_total + 1
         /\ isr_stack' = stack
         /\ UNCHANGED long_tasks_running
    ELSE /\ long_tasks_running' = TRUE
         /\ isr_stack' = Append(stack, Frame("poll", 0, ticks, << >>))
         /\ UNCHANGED skipped_ticks_long_total

IsrUnchanged ==
  /\ UNCHANGED << event_lut, echo_state, report_read_ptr, report_write_ptr,
                  report_count, transmit_running >>
  /\ ParserUnchanged
  /\ UNCHANGED NotApp

\* Mutant: the tick dispatch is entered whatever in_isr says.
TickIsNested_Never(flag) == FALSE

\* "if (in_isr)"
TickIsNested(flag) == flag

\* The timer interrupt fires: in the main loop, or inside a NONATOMIC_BLOCK
\* of an invocation under way.  Up to the first NONATOMIC_BLOCK interrupts
\* are off.
DoUpdate_ISR_Enter ==
  /\ app_call # "new"
  /\ nupdates < MaxUpdates
  /\ nupdates' = nupdates + 1
  /\ IF TickIsNested(in_isr)
       THEN /\ skipped_ticks_short_total' = skipped_ticks_short_total + 1
            /\ UNCHANGED in_isr
            /\ EnterLongTasks(isr_stack, << >>)
       ELSE /\ in_isr' = TRUE
            /\ isr_stack' = Append(isr_stack, Frame("tick", 0, << >>, << >>))
            /\ UNCHANGED << skipped_ticks_short_total, skipped_ticks_long_total,
                            long_tasks_running >>
  /\ app_call' = "DoUpdate_ISR"
  /\ app_line' = NULL
  /\ app_busy' = FALSE
  /\ app_offers' = 0
  /\ calls' = << >>
  /\ IsrUnchanged

\* One row of the HandleTick_ISR loop.
DoUpdate_ISR_Tick ==
  /\ isr_stack # << >>
  /\ FramePc(Top) = "tick"
  /\ FrameHidx(Top) < Len(event_lut[1])
  /\ isr_stack' = Append(Below,
       [Top EXCEPT ![2] = @ + 1,
                   ![3] = IF IsDistinctRow(event_lut[1], FrameHidx(Top))
                               THEN Append(@, RowHandler(event_lut[1][FrameHidx(Top) + 1]))
                               ELSE @])
  /\ UNCHANGED << in_isr, long_tasks_running, skipped_ticks_short_total,
                  skipped_ticks_long_total, app_call, app_line, app_busy, app_offers, calls,
                  nupdates >>
  /\ IsrUnchanged

\* The end of the first half: in_isr = false, and on to the second half
\* with interrupts off.
DoUpdate_ISR_TickDone ==
  /\ isr_stack # << >>
  /\ FramePc(Top) = "tick"
  /\ FrameHidx(Top) >= Len(event_lut[1])
  /\ in_isr' = FALSE
  /\ EnterLongTasks(Below, FrameTicks(Top))
  /\ UNCHANGED << skipped_ticks_short_total, app_call, app_line, app_busy, app_offers, calls,
                  nupdates >>
  /\ IsrUnchanged

\* One row of the HandlePollHighPriority_ISR loop.
DoUpdate_ISR_Poll ==
  /\ isr_stack # << >>
  /\ FramePc(Top) = "poll"
  /\ FrameHidx(Top) < Len(event_lut[1])
  /\ isr_stack' = Append(Below,
       [Top EXCEPT ![2] = @ + 1,
                   ![4] = IF IsDistinctRow(event_lut[1], FrameHidx(Top))
                               THEN Append(@, RowHandler(event_lut[1][FrameHidx(Top) + 1]))
                               ELSE @])
  /\ UNCHANGED << in_isr, long_tasks_running, skipped_ticks_short_total,
                  skipped_ticks_long_total, app_call, app_line, app_busy, app_offers, calls,
                  nupdates >>
  /\ IsrUnchanged

\* The end of the second half: long_tasks_running = false, and return.
DoUpdate_ISR_PollDone ==
  /\ isr_stack # << >>
  /\ FramePc(Top) = "poll"
  /\ FrameHidx(Top) >= Len(event_lut[1])
  /\ long_tasks_running' = FALSE
  /\ isr_stack' = Below
  /\ UNCHANGED << in_isr, skipped_ticks_short_total, skipped_ticks_long_total,
                  app_call, app_line, app_busy, app_offers, calls,
                  nupdates >>
  /\ IsrUnchanged

\* The tables of the hook specification: rows without command lists.
HookRegistry(hs) == Registry(hs, [i \in 1 .. Len(hs) |-> NULL])

\* The lines of the hook specification: INI, a help request, and a line the
\* parser rejects.
HookLines == {NULL, Ptr(cmd_reset), Ptr(<< Ch_Question >>), Ptr(<< 33 >>)}

\* The timer interrupt may come at any point of the main loop between two
\* calls, and inside the nonatomic parts of DoUpdate_ISR.  No handler has a
\* report to make.
NextApp ==
  \/ \E n \in 0 .. MaxRows : \E hs \in [1 .. n -> HandlerIds] :
       DoInitialSetup(HookRegistry(hs))
  \/ ReInitState
  \/ \E gotline \in HookLines : DoPolling(gotline, FALSE, 0)
  \/ DoUpdate_ISR_Enter
  \/ DoUpdate_ISR_Tick
  \/ DoUpdate_ISR_TickDone
  \/ DoUpdate_ISR_Poll
  \/ DoUpdate_ISR_PollDone

\* The report queue: no lines arrive, the handlers have reports to make and
\* the transmitter is busy or not.
\* The characters that arrive in the line specification.
PollChars == {97, LF}

\* One handler is registered; characters arrive at any time, also between the
\* two steps of DoPolling.
NextPoll ==
  \/ DoInitialSetup(HookRegistry(<< 1 >>))
  \/ \E recvchar \in PollChars : UART_HandleRecvChar_ISR(recvchar)
  \/ DoPolling_GetNextLine
  \/ \E text \in HookLines : DoPolling_Line(text, FALSE, 0)

NextReport ==
  \/ \E n \in 0 .. MaxRows : \E hs \in [1 .. n -> HandlerIds] :
       DoInitialSetup(HookRegistry(hs))
  \/ \E send_in_progress \in BOOLEAN, offers \in 0 .. MaxOffers :
       DoPolling(NULL, send_in_progress, offers)

\* The command names of the dispatch specification; no handler lists CCC.
NameA == << 65, 65, 65 >>
NameB == << 66, 66, 66 >>
NameC == << 67, 67, 67 >>

\* A command list is NULL or one of these lists of names and argument
\* counts.
CmdShapes ==
  { NULL,
    Ptr(<< >>),
    Ptr(<< << NameA, 0 >> >>),
    Ptr(<< << NameA, 1 >> >>),
    Ptr(<< << NameB, 0 >>, << NameA, 1 >> >>),
    Ptr(<< << NameA, 0 >>, << NameA, 1 >> >>) }

\* The command list of row hidx with that shape; the opcode of an entry
\* tells its row and its place.
CmdListAt(hidx, shape) ==
  IF shape = NULL
    THEN NULL
    ELSE Ptr([cidx \in 1 .. Len(shape[1]) |->
               CmdRow(shape[1][cidx][1], 10 * hidx + cidx, shape[1][cidx][2])])

DispatchRegistry(hs, shapes) ==
  Registry(hs, [i \in 1 .. Len(hs) |-> CmdListAt(i, shapes[i])])

\* A listed name with no, one and two arguments, in lower case, and an
\* unlisted name.
DispatchLines ==
  { Ptr(NameA), Ptr(NameA \o << Ch_Space, 55 >>),
    Ptr(NameA \o << Ch_Space, 55, Ch_Space, 56 >>),
    Ptr(NameB), Ptr(<< 97, 97, 97 >>), Ptr(NameC) }

NextDispatch ==
  \/ \E n \in 0 .. MaxRows : \E hs \in [1 .. n -> HandlerIds] :
       \E shapes \in [1 .. n -> CmdShapes] :
         DoInitialSetup(DispatchRegistry(hs, shapes))
  \/ \E gotline \in DispatchLines : DoPolling(gotline, FALSE, 0)

\* The other subsystems never read the application object; their
\* specifications start it in one of its states.
InitAppIdle ==
  /\ InitApp
  /\ ~in_isr
  /\ ~long_tasks_running
  /\ ~transmit_running
  /\ report_count = 0

(***************************************************************************)
(* The workstation emulation of ATOMIC_BLOCK.  What a call does between    *)
(* atomic_access_mutex.lock() and unlock() is one action.                  *)
(***************************************************************************)

ATOMIC_DONE == 0
ATOMIC_WANT_INTERRUPTS == 1
ATOMIC_WANT_NO_INTERRUPTS == 2

ATOMIC_RESTORESTATE == TRUE
ATOMIC_FORCEON == FALSE

Threads == 1 .. MaxThreads

\* A default-constructed std::thread::id.
NoThread == 0

InitAtomic ==
  /\ atomic_waiting_mutex = NULL
  /\ atomic_owner_count = 0
  /\ atomic_owner_id = NoThread
  /\ cli_pc = [t \in Threads |-> "run"]
  /\ cli_save_old = [t \in Threads |-> FALSE]
  /\ cli_old_count = [t \in Threads |-> 0]
  /\ cli_old_id = [t \in Threads |-> NoThread]
  /\ cli_blocks = [t \in Threads |-> << >>]

\* ATOMIC_GetCli, "Check the bookkeeping state."
ATOMIC_GetCli_Check(t, save_old) ==
  /\ cli_pc[t] = "run"
  /\ Len(cli_blocks[t]) < MaxNest
  /\ cli_save_old' = [cli_save_old EXCEPT ![t] = save_old]
  /\ cli_old_count' = [cli_old_count EXCEPT ![t] = atomic_owner_count]
  /\ cli_old_id' = [cli_old_id EXCEPT ![t] = atomic_owner_id]
  /\ cli_pc' = [cli_pc EXCEPT ![t] = "claim"]
  /\ UNCHANGED << atomic_waiting_mutex, atomic_owner_count, atomic_owner_id, cli_blocks >>
  /\ UNCHANGED NotAtomic

\* Mutant: a thread whose id is still in atomic_owner_id does not lock.
MustLock_IfNotLastOwner(t, old_count, old_id) == ~(t = old_id)

\* Mutant: the owner locks again.
MustLock_Always(t, old_count, old_id) == TRUE

\* (0 == old_count) || (!(std::this_thread::get_id() == old_id))
MustLock(t, old_count, old_id) == (0 = old_count) \/ ~(t = old_id)

\* ATOMIC_GetCli, "Claim the lock if we don't already have it."  lock()
\* returns when no thread holds the mutex.
ATOMIC_GetCli_Claim(t) ==
  /\ cli_pc[t] = "claim"
  /\ IF MustLock(t, cli_old_count[t], cli_old_id[t])
       THEN /\ atomic_waiting_mutex = NULL
            /\ atomic_waiting_mutex' = Ptr(t)
       ELSE UNCHANGED atomic_waiting_mutex
  /\ cli_pc' = [cli_pc EXCEPT ![t] = "update"]
  /\ UNCHANGED << atomic_owner_count, atomic_owner_id, cli_save_old,
                  cli_old_count, cli_old_id, cli_blocks >>
  /\ UNCHANGED NotAtomic

\* Mutant: a block with ATOMIC_RESTORESTATE asks for interrupts whatever the
\* nesting.
DesiredState_Outermost(save_old, old_count) == ATOMIC_WANT_INTERRUPTS

\* result = ATOMIC_WANT_INTERRUPTS;
\* if (save_old && (0 < old_count)) result = ATOMIC_WANT_NO_INTERRUPTS;
DesiredState(save_old, old_count) ==
  IF save_old /\ (0 < old_count)
    THEN ATOMIC_WANT_NO_INTERRUPTS
    ELSE ATOMIC_WANT_INTERRUPTS

\* ATOMIC_GetCli, "Update the bookkeeping state." and the return; the
\* result is the ATOMIC_idx of the block entered, and the locals of the call
\* are gone.
ATOMIC_GetCli_Update(t) ==
  /\ cli_pc[t] = "update"
  /\ cli_old_count' = [cli_old_count EXCEPT ![t] = 0]
  /\ cli_old_id' = [cli_old_id EXCEPT ![t] = NoThread]
  /\ cli_save_old' = [cli_save_old EXCEPT ![t] = FALSE]
  /\ atomic_owner_count' = atomic_owner_count + 1
  /\ atomic_owner_id' = t
  /\ cli_blocks' = [cli_blocks EXCEPT ![t] =
                      Append(@, DesiredState(cli_save_old[t], atomic_owner_count))]
  /\ cli_pc' = [cli_pc EXCEPT ![t] = "run"]
  /\ UNCHANGED atomic_waiting_mutex
  /\ UNCHANGED NotAtomic

\* ATOMIC_ReleaseCli at the end of the innermost block, "Update bookkeeping
\* state."
ATOMIC_ReleaseCli_Update(t) ==
  /\ cli_pc[t] = "run"
  /\ cli_blocks[t] # << >>
  /\ atomic_owner_count' = atomic_owner_count - 1
  /\ cli_old_count' = [cli_old_count EXCEPT ![t] = atomic_owner_count - 1]
  /\ cli_pc' = [cli_pc EXCEPT ![t] = "release"]
  /\ UNCHANGED << atomic_waiting_mutex, atomic_owner_id, cli_save_old,
                  cli_old_id, cli_blocks >>
  /\ UNCHANGED NotAtomic

\* Mutant: every release unlocks.
IsOutermost_Always(old_count) == TRUE

\* 0 == old_count
IsOutermost(old_count) == 0 = old_count

\* ATOMIC_ReleaseCli, "If we're at the outermost nesting layer, release the
\* lock.", and the return of ATOMIC_DONE, which ends the block.  unlock() by
\* a thread that does not hold the mutex is undefined.
ATOMIC_ReleaseCli_Unlock(t) ==
  /\ cli_pc[t] = "release"
  /\ IF IsOutermost(cli_old_count[t])
       THEN IF atomic_waiting_mutex = Ptr(t)
              THEN atomic_waiting_mutex' = NULL
              ELSE atomic_waiting_mutex' \in {NULL, atomic_waiting_mutex}
       ELSE UNCHANGED atomic_waiting_mutex
  /\ cli_blocks' = [cli_blocks EXCEPT ![t] = SubSeq(@, 1, Len(@) - 1)]
  /\ cli_pc' = [cli_pc EXCEPT ![t] = "run"]
  /\ cli_old_count' = [cli_old_count EXCEPT ![t] = 0]
  /\ UNCHANGED << atomic_owner_count, atomic_owner_id, cli_save_old, cli_old_id >>
  /\ UNCHANGED NotAtomic

\* Every thread enters and leaves blocks as it likes, nested up to MaxNest.
NextAtomic ==
  \/ \E t \in Threads, save_old \in {ATOMIC_RESTORESTATE, ATOMIC_FORCEON} :
       ATOMIC_GetCli_Check(t, save_old)
  \/ \E t \in Threads : ATOMIC_GetCli_Claim(t)
  \/ \E t \in Threads : ATOMIC_GetCli_Update(t)
  \/ \E t \in Threads : ATOMIC_ReleaseCli_Update(t)
  \/ \E t \in Threads : ATOMIC_ReleaseCli_Unlock(t)

(***************************************************************************)
(* The real-time clock.  rtc_timestamp is read a byte at a time, as an     *)
(* 8-bit MCU reads it; an interrupt handler is one action.  The timer      *)
(* registers that set the tick period, and the emulator's virtual time     *)
(* clocks_per_tick and clocks_elapsed, which nothing reads, are left out:  *)
(* a tick can come whenever the tick source runs.                          *)
(***************************************************************************)

Targets == {"m328p", "emu"}

TimestampMod == 2 ^ (ByteBits * TimestampBytes)

\* Byte k of a timestamp, low byte first.
TimestampByte(v, k) == (v \div (2 ^ (ByteBits * k))) % (2 ^ ByteBits)

RECURSIVE FromBytes(_)
FromBytes(bytes) ==
  IF bytes = << >>
    THEN 0
    ELSE Head(bytes) + (2 ^ ByteBits) * FromBytes(Tail(bytes))

\* The functions a program registers.
Callbacks == {1, 2}

\* The tick rates a program asks for.
TickRates == {0, 1}

InitTimer ==
  /\ target \in Targets
  /\ rtc_timestamp = 0
  /\ rtc_usercallback = NULL
  /\ TIMSK1 = 0
  /\ have_timer_thread = FALSE
  /\ timer_active = FALSE
  /\ sreg_i = TRUE
  /\ tq_pc = "idle"
  /\ tq_bytes = << >>
  /\ tq_seen = {}
  /\ timer_op = "reset"
  /\ timer_arg = NULL
  /\ rtc_hz_set = NULL
  /\ cb_calls = << >>

InitTimerIdle == InitTimer /\ target = "m328p"

\* The main program is between two calls.
MainIdle == tq_pc = "idle"

\* Timer_Init of the ATmega328P and of the emulation.
Timer_Init(rtc_hz) ==
  /\ MainIdle
  /\ IF target = "m328p"
       THEN /\ rtc_timestamp' = 0
            /\ rtc_usercallback' = NULL
            /\ TIMSK1' = IF 0 < rtc_hz THEN 2 ELSE 0
            /\ UNCHANGED << have_timer_thread, timer_active >>
       ELSE /\ timer_active' = (0 < rtc_hz)
            /\ have_timer_thread' = TRUE
            /\ UNCHANGED << rtc_timestamp, rtc_usercallback, TIMSK1 >>
  /\ timer_op' = "Timer_Init"
  /\ timer_arg' = Ptr(rtc_hz)
  /\ rtc_hz_set' = Ptr(rtc_hz)
  /\ cb_calls' = << >>
  /\ UNCHANGED << target, sreg_i, tq_pc, tq_bytes, tq_seen >>
  /\ UNCHANGED NotTimer

Timer_Reset ==
  /\ MainIdle
  /\ rtc_timestamp' = 0
  /\ timer_op' = "Timer_Reset"
  /\ timer_arg' = NULL
  /\ cb_calls' = << >>
  /\ UNCHANGED << target, rtc_usercallback, TIMSK1, have_timer_thread,
                  timer_active, sreg_i, tq_pc, tq_bytes, tq_seen, rtc_hz_set >>
  /\ UNCHANGED NotTimer

Timer_RegisterCallback(callback) ==
  /\ MainIdle
  /\ rtc_usercallback' = callback
  /\ timer_op' = "Timer_RegisterCallback"
  /\ timer_arg' = callback
  /\ cb_calls' = << >>
  /\ UNCHANGED << target, rtc_timestamp, TIMSK1, have_timer_thread,
                  timer_active, sreg_i, tq_pc, tq_bytes, tq_seen, rtc_hz_set >>
  /\ UNCHANGED NotTimer

\* Mutant: the block leaves the interrupts as they are.
ATOMIC_BLOCK_Enter_Nop(i) == i

\* Whether interrupts can come once ATOMIC_BLOCK is entered.
ATOMIC_BLOCK_Enter(i) == FALSE

\* Timer_Query enters its ATOMIC_BLOCK.
Timer_Query_Enter ==
  /\ MainIdle
  /\ sreg_i' = ATOMIC_BLOCK_Enter(sreg_i)
  /\ tq_pc' = "read"
  /\ tq_bytes' = << >>
  /\ tq_seen' = {rtc_timestamp}
  /\ timer_op' = "Timer_Query_Enter"
  /\ timer_arg' = NULL
  /\ cb_calls' = << >>
  /\ UNCHANGED << target, rtc_timestamp, rtc_usercallback, TIMSK1,
                  have_timer_thread, timer_active, rtc_hz_set >>
  /\ UNCHANGED NotTimer

\* result = rtc_timestamp, the next byte.
Timer_Query_Read ==
  /\ tq_pc = "read"
  /\ Len(tq_bytes) < TimestampBytes
  /\ tq_bytes' = Append(tq_bytes, TimestampByte(rtc_timestamp, Len(tq_bytes)))
  /\ timer_op' = "Timer_Query_Read"
  /\ timer_arg' = NULL
  /\ cb_calls' = << >>
  /\ UNCHANGED << target, rtc_timestamp, rtc_usercallback, TIMSK1,
                  have_timer_thread, timer_active, sreg_i, tq_pc, tq_seen,
                  rtc_hz_set >>
  /\ UNCHANGED NotTimer

\* The block ends, the interrupts are as the main program had them, and
\* Timer_Query returns result.
Timer_Query_Return ==
  /\ tq_pc = "read"
  /\ Len(tq_bytes) = TimestampBytes
  /\ sreg_i' = TRUE
  /\ tq_pc' = "idle"
  /\ tq_bytes' = << >>
  /\ tq_seen' = {}
  /\ timer_op' = "Timer_Query"
  /\ timer_arg' = Ptr(FromBytes(tq_bytes))
  /\ cb_calls' = << >>
  /\ UNCHANGED << target, rtc_timestamp, rtc_usercallback, TIMSK1,
                  have_timer_thread, timer_active, rtc_hz_set >>
  /\ UNCHANGED NotTimer

\* The tick source: the compare-match interrupt of Timer 1 on the MCU, the
\* thread that spins in Timer_ISRThread in the emulation.
TickSourceRuns ==
  IF target = "m328p" THEN TIMSK1 = 2 ELSE have_timer_thread

\* Mutant: the callback runs before the increment.
Timer_Query_ISR_Before(old, new) == old

\* What Timer_Query_ISR returns in the callback of a tick that takes
\* rtc_timestamp from old to new.
Timer_Query_ISR(old, new) == new

\* The calls a tick makes: << callback, value of Timer_Query_ISR in it,
\* whether interrupts can come during it >>.
CallbackCalls(callback, old, new) ==
  IF NULL # callback
    THEN << << callback[1], Timer_Query_ISR(old, new), FALSE >> >>
    ELSE << >>

\* ISR(TIMER1_COMPA_vect, ISR_BLOCK) and the emulation's Timer_ISR, which
\* waits for the atomic section.
Timer_ISR ==
  /\ TickSourceRuns
  /\ sreg_i
  /\ rtc_timestamp' = (rtc_timestamp + 1) % TimestampMod
  /\ cb_calls' = CallbackCalls(rtc_usercallback, rtc_timestamp, rtc_timestamp')
  /\ tq_seen' = IF MainIdle THEN tq_seen ELSE tq_seen \cup {rtc_timestamp'}
  /\ timer_op' = "Timer_ISR"
  /\ timer_arg' = NULL
  /\ UNCHANGED << target, rtc_usercallback, TIMSK1, have_timer_thread,
                  timer_active, sreg_i, tq_pc, tq_bytes, rtc_hz_set >>
  /\ UNCHANGED NotTimer

NextTimer ==
  \/ \E rtc_hz \in TickRates : Timer_Init(rtc_hz)
  \/ Timer_Reset
  \/ \E callback \in {NULL} \cup {Ptr(f) : f \in Callbacks} :
       Timer_RegisterCallback(callback)
  \/ Timer_Query_Enter
  \/ Timer_Query_Read
  \/ Timer_Query_Return
  \/ Timer_ISR

(***************************************************************************)
(* ADC scheduler with the tick interrupt.  The functions of part_001 hold  *)
(* no ATOMIC_BLOCK, so ADC_HousekeepingPoll, called from the timer         *)
(* interrupt, can run between two statements of the main program.  While   *)
(* ADC_idle is true the poll does nothing, so the statements of a call     *)
(* that run with ADC_idle true are one action.                             *)
(***************************************************************************)

InitADCMain ==
  /\ adc_main_pc = "idle"
  /\ adc_main_first = 0

\* ADC_StartConversion up to and with "ADC_idle = false".
ADC_StartConversion_Mark(channel_mask) ==
  /\ adc_main_pc = "idle"
  /\ adc_call' = "start"
  /\ IF StartIsAccepted(ADC_idle)
       THEN LET sc == StartLoop(0, channel_mask,
                        [idle |-> ADC_ReInitBuffer.idle,
                         needs |-> ADC_ReInitBuffer.needs,
                         ready |-> ADC_ReInitBuffer.ready,
                         data |-> ADC_ReInitBuffer.data,
                         need_first |-> TRUE, first_channel |-> 0])
            IN /\ ADC_needs_conversion' = sc.needs
               /\ ADC_data_ready' = sc.ready
               /\ ADC_data' = sc.data
               /\ adc_mask' = channel_mask
               /\ adc_ready_order' = << >>
               /\ adc_discarded' =
                    Cardinality({c \in Channels : ADC_data_ready[c]})
               /\ adc_read_order' = << >>
               /\ IF ~sc.need_first
                    THEN /\ ADC_idle' = FALSE
                         /\ adc_main_pc' = "start_read"
                         /\ adc_main_first' = sc.first_channel
                    ELSE /\ ADC_idle' = sc.idle
                         /\ UNCHANGED << adc_main_pc, adc_main_first >>
       ELSE UNCHANGED << ADC_idle, ADC_needs_conversion, ADC_data_ready,
                         ADC_data, adc_mask, adc_ready_order, adc_discarded,
                         adc_read_order, adc_main_pc, adc_main_first >>
  /\ UNCHANGED << admux, adsc, adc_inflight, sample_found, sample_data,
                  sample_channel >>
  /\ UNCHANGED NotADCMain

\* ADC_StartConversion, "ADC_ReadFromChannel(first_channel)", and the return.
ADC_StartConversion_Read ==
  /\ adc_main_pc = "start_read"
  /\ adc_call' = "start_read"
  /\ ADC_ReadFromChannel(adc_main_first, adc_inflight)
  /\ adc_main_pc' = "idle"
  /\ adc_main_first' = 0
  /\ UNCHANGED << ADC_idle, ADC_needs_conversion, ADC_data_ready, ADC_data,
                  sample_found, sample_data, sample_channel, adc_mask,
                  adc_ready_order, adc_discarded, adc_read_order >>
  /\ UNCHANGED NotADCMain

\* ADC_ReadPendingSample, "if (ADC_idle)"; when it fails the call returns
\* false.
ADC_ReadPendingSample_Check ==
  /\ adc_main_pc = "idle"
  /\ adc_call' = "read_check"
  /\ IF ADC_idle
       THEN /\ adc_main_pc' = "read_loop"
            /\ UNCHANGED sample_found
       ELSE /\ sample_found' = FALSE
            /\ UNCHANGED adc_main_pc
  /\ UNCHANGED << ADC_idle, ADC_needs_conversion, ADC_data_ready, ADC_data,
                  admux, adsc, sample_data, sample_channel, adc_mask,
                  adc_ready_order, adc_inflight, adc_discarded,
                  adc_read_order, adc_main_first >>
  /\ UNCHANGED NotADCMain

\* ADC_ReadPendingSample, the loop and the return.
ADC_ReadPendingSample_Loop ==
  /\ adc_main_pc = "read_loop"
  /\ adc_call' = "read"
  /\ LET rd == ReadLoop(0, [ready |-> ADC_data_ready, found |-> FALSE,
                            data |-> sample_data,
                            channel_id |-> sample_channel])
     IN /\ ADC_data_ready' = rd.ready
        /\ sample_found' = rd.found
        /\ sample_data' = rd.data
        /\ sample_channel' = rd.channel_id
        /\ adc_read_order' = IF rd.found
                               THEN Append(adc_read_order, rd.channel_id)
                               ELSE adc_read_order
  /\ adc_main_pc' = "idle"
  /\ UNCHANGED << ADC_idle, ADC_needs_conversion, ADC_data, admux, adsc,
                  adc_mask, adc_ready_order, adc_inflight, adc_discarded,
                  adc_main_first >>
  /\ UNCHANGED NotADCMain

\* The masks of the requests made here: no channel, one, or two, which are
\* the cases that ADC_HousekeepingPoll tells apart.
IrqMasks == {0, 1, 2, 3, 2 ^ ADC_CHANNEL_COUNT}

\* The main program calls the scheduler, the tick interrupt polls it at any
\* point, the converter finishes when it likes.
NextADCIrq ==
  \/ \E channel_mask \in IrqMasks : ADC_StartConversion_Mark(channel_mask)
  \/ ADC_StartConversion_Read
  \/ ADC_ReadPendingSample_Check
  \/ ADC_ReadPendingSample_Loop
  \/ ADC_HousekeepingPoll
  \/ ADC_ConversionComplete

(***************************************************************************)
(* Report strings on their way to the UART                                 *)
(***************************************************************************)

Slots == 0 .. QueueLength - 1

\* No report was made yet; every slot holds the empty string.
InitQueue ==
  /\ reportqueue = [s \in Slots |-> << >>]
  /\ naccepted = 0
  /\ report_log = << >>
  /\ trans_source = NULL
  /\ trans_torn = FALSE

\* The slots MakeReportString filled among the calls made, in order.
SlotsFilled(made) ==
  LET filled == SelectSeq(made, LAMBDA c : CallFn(c) = "MakeReportString" /\ c[4] = 1)
  IN  [k \in 1 .. Len(filled) |-> filled[k][3]]

\* The slots passed to UART_QueueSend among the calls made.
SlotsSent(made) ==
  LET started == SelectSeq(made, LAMBDA c : CallFn(c) = "UART_QueueSend_report")
  IN  [k \in 1 .. Len(started) |-> started[k][3]]

\* The strings after handlers filled slots: the k-th report made from now on
\* is the string << first + k >>.
Filled(queue, slots, first) ==
  [s \in Slots |->
     IF \E k \in 1 .. Len(slots) : slots[k] = s
       THEN << first + CHOOSE k \in 1 .. Len(slots) :
                 slots[k] = s /\ \A j \in k + 1 .. Len(slots) : slots[j] # s >>
       ELSE queue[s]]

\* A string is being sent out of one of the slots written.
IsWritten(slots) ==
  /\ UART_IsSendInProgress
  /\ \E k \in 1 .. Len(slots) : trans_source = Ptr(<< "reportqueue", slots[k] >>)

\* UART_QueueSend(reportqueue[slot]) when nothing is being sent: the wait
\* returns at once and the string is installed.
\* slots are filled after the string of slot was installed.
QueueSend_Slot(slot, slots) ==
  /\ UART_transbuf' = Ptr(reportqueue[slot])
  /\ transcharptr' = 0
  /\ trans_is_flash' = FALSE
  /\ queued' = Ptr(reportqueue[slot])
  /\ sent' = << >>
  /\ trans_source' = Ptr(<< "reportqueue", slot >>)
  /\ trans_torn' = \E k \in 1 .. Len(slots) : slots[k] = slot

\* Everything but the application object, the sender and the report strings.
NotAppSend == << recvvars, adcvars, rawline, was_ok, cmd, arg1, arg2,
                 argcount, was_new, scan_states, parse_call, nparsed,
                 nqueries, atomicvars, timervars, adcmainvars, uartvars,
                 emuvars >>

\* DoInitialSetup, with the strings of the queue: ReInitState terminates all
\* of them at their first character.
DoInitialSetup_Queue(eventdefs) ==
  /\ DoInitialSetup_App(eventdefs)
  /\ reportqueue' = [s \in Slots |-> << >>]
  /\ UNCHANGED << naccepted, report_log, trans_source, trans_torn >>
  /\ UNCHANGED sendvars
  /\ UNCHANGED NotAppSend

\* DoPolling with no line received, the handlers having offers reports each;
\* the answer of UART_IsSendInProgress is the sender's.
DoPolling_Report(offers) ==
  /\ app_call # "ReInitState_wait"
  /\ DoPolling_AfterLine(NULL, UART_IsSendInProgress, offers)
  /\ naccepted' = naccepted + Len(SlotsFilled(calls'))
  /\ naccepted' <= MaxReports
  /\ reportqueue' = Filled(reportqueue, SlotsFilled(calls'), naccepted)
  /\ report_log' = report_log \o [k \in 1 .. Len(SlotsSent(calls')) |->
                                   reportqueue[SlotsSent(calls')[k]]]
  /\ IF SlotsSent(calls') # << >>
       THEN QueueSend_Slot(SlotsSent(calls')[1], SlotsFilled(calls'))
       ELSE /\ trans_torn' = (trans_torn \/ IsWritten(SlotsFilled(calls')))
            /\ UNCHANGED << UART_transbuf, transcharptr, trans_is_flash, queued,
                            sent, trans_source >>
  /\ UNCHANGED << sendpc, message, message_P, isr_result, sendchar, busy_at_call >>
  /\ UNCHANGED NotAppSend

\* ReInitState up to its call of UART_WaitForSendDone: the queue is emptied
\* and every slot's first character set to NUL, also that of a slot being
\* sent, whose string the transmit interrupt then finds ended.
ReInitState_Terminate ==
  /\ app_call \notin {"new", "ReInitState_wait"}
  /\ isr_stack = << >>
  /\ SetParser(ResetState(This))
  /\ SetQueue(Queue(0, 0, 0, FALSE))
  /\ reportqueue' = [s \in Slots |-> << >>]
  /\ trans_torn' = (trans_torn \/ IsWritten([s \in 1 .. QueueLength |-> s - 1]))
  /\ UART_transbuf' =
       IF IsWritten([s \in 1 .. QueueLength |-> s - 1]) THEN Ptr(<< >>)
       ELSE UART_transbuf
  /\ app_call' = "ReInitState_wait"
  /\ UNCHANGED << event_lut, echo_state, skipped_ticks_short_total,
                  skipped_ticks_long_total, in_isr, long_tasks_running,
                  isr_stack, app_line, app_busy, app_offers, calls, nupdates >>
  /\ UNCHANGED << transcharptr, trans_is_flash, sendpc, message, message_P,
                  isr_result, sendchar, queued, sent, busy_at_call >>
  /\ UNCHANGED << naccepted, report_log, trans_source >>
  /\ UNCHANGED NotAppSend

\* The rest of ReInitState, once UART_WaitForSendDone has returned.
ReInitState_Finish ==
  /\ app_call = "ReInitState_wait"
  /\ ~UART_IsSendInProgress
  /\ ReInitState_App
  /\ UNCHANGED queuevars
  /\ UNCHANGED sendvars
  /\ UNCHANGED NotAppSend

\* UART_PrintChar(value): the wait for the scratch string to be free, the
\* write and UART_QueueSend(scratchstr).
UART_PrintChar(value) ==
  /\ app_call \notin {"new", "ReInitState_wait"}
  /\ ~UART_IsSendInProgress
  /\ UART_transbuf' = Ptr(<< value >>)
  /\ transcharptr' = 0
  /\ trans_is_flash' = FALSE
  /\ queued' = Ptr(<< value >>)
  /\ sent' = << >>
  /\ trans_source' = Ptr(<< "scratchstr", 0 >>)
  /\ trans_torn' = FALSE
  /\ UNCHANGED << sendpc, message, message_P, isr_result, sendchar, busy_at_call >>
  /\ UNCHANGED << reportqueue, naccepted, report_log >>
  /\ UNCHANGED appvars
  /\ UNCHANGED << have_command, this_cmdname, this_arg1, this_arg2, argsfound >>
  /\ UNCHANGED NotAppSend

\* The main loop polls; the transmit interrupt sends what was installed.
NextReportSend ==
  \/ \E n \in 1 .. MaxRows : \E hs \in [1 .. n -> HandlerIds] :
       DoInitialSetup_Queue(HookRegistry(hs))
  \/ \E offers \in 0 .. MaxOffers : DoPolling_Report(offers)
  \/ TransmitInterrupt

\* The same with soft resets and printed characters in between.
NextReset ==
  \/ \E n \in 1 .. MaxRows : \E hs \in [1 .. n -> HandlerIds] :
       DoInitialSetup_Queue(HookRegistry(hs))
  \/ \E offers \in 0 .. MaxOffers : DoPolling_Report(offers)
  \/ TransmitInterrupt
  \/ ReInitState_Terminate
  \/ ReInitState_Finish
  \/ UART_PrintChar(97)

\* DoPolling is called again and again, and the transmit interrupt is served.
FairReportSend ==
  /\ WF_vars(\E offers \in 0 .. MaxOffers : DoPolling_Report(offers))
  /\ WF_vars(TransmitInterrupt)

(***************************************************************************)
(* UART_Init and the transmitter of the target                             *)
(***************************************************************************)

BaudRates == {0, 1}

\* Power-up: the UART is off, the emulation's flag is false.
InitUart ==
  /\ UCSR0B = "UART_CSRB_OFF"
  /\ uart_active = FALSE
  /\ real_baud_rate = 0
  /\ uart_call = "reset"

\* Everything but the line buffer, the sender and the UART.
NotUart == << adcvars, parsevars, appvars, atomicvars, timervars,
              adcmainvars, queuevars, emuvars >>

\* Mutant: the buffers are initialised for a baud rate of 0 as well.
InitBuffersOnInit_Always(baud_rate) == TRUE

\* UART_Init of the ATmega328P calls UART_InitBuffers_ISR in its else branch.
InitBuffersOnInit(baud_rate) == baud_rate # 0

\* UART_Init(mcu_hz, baud_rate), called between two sends.
UART_Init(baud_rate) ==
  /\ sendpc = "idle"
  /\ real_baud_rate' = baud_rate
  /\ uart_call' = "UART_Init"
  /\ IF target = "m328p"
       THEN /\ UCSR0B' = IF baud_rate = 0 THEN "UART_CSRB_OFF" ELSE "UART_CSRB_TXIDLE"
            /\ UNCHANGED uart_active
            /\ IF InitBuffersOnInit(baud_rate)
                 THEN /\ UART_recvlines' =
                           [k \in DOMAIN UART_recvlines |->
                              IF k % UART_LINE_SIZE = 0 THEN NUL ELSE UART_recvlines[k]]
                      /\ rowcount' = 0
                      /\ oldestrow' = 0
                      /\ newestrow' = 0
                      /\ recvcharptr' = 0
                      /\ uart_filter_empty_lines' = FALSE
                      /\ UART_transbuf' = NULL
                      /\ transcharptr' = 0
                      /\ trans_is_flash' = FALSE
                 ELSE UNCHANGED << UART_recvlines, rowcount, oldestrow, newestrow,
                                   recvcharptr, uart_filter_empty_lines,
                                   UART_transbuf, transcharptr, trans_is_flash >>
       ELSE /\ uart_active' = (0 < baud_rate)
            /\ UNCHANGED << UCSR0B, UART_recvlines, rowcount, oldestrow, newestrow,
                            recvcharptr, uart_filter_empty_lines,
                            UART_transbuf, transcharptr, trans_is_flash >>
  /\ UNCHANGED << saw_cr, thisline, thisline_seen, nrecv, lastchar, overruns >>
  /\ UNCHANGED << sendpc, message, message_P, isr_result, sendchar, queued,
                  sent, busy_at_call >>
  /\ UNCHANGED NotUart

\* The atomic block of UART_QueueSend with UART_EnableTransmit_ISR, which on
\* the ATmega turns the data-register-empty interrupt on and in the
\* emulation does nothing.
UART_QueueSend_Enable ==
  /\ UART_QueueSend_Atomic
  /\ IF message # NULL /\ target = "m328p"
       THEN UCSR0B' = "UART_CSRB_TXON"
       ELSE UNCHANGED UCSR0B
  /\ uart_call' = "UART_QueueSend"
  /\ UNCHANGED << uart_active, real_baud_rate >>
  /\ UNCHANGED recvvars
  /\ UNCHANGED NotUart

\* ISR(USART_UDRE_vect), while that interrupt is on, and a round of
\* UART_FeederThread, while the UART is active.
UART_TransmitService ==
  /\ IF target = "m328p" THEN UCSR0B = "UART_CSRB_TXON" ELSE uart_active
  /\ GetNextSendChar
  /\ IF target = "m328p" /\ ~isr_result'
       THEN UCSR0B' = "UART_CSRB_TXIDLE"
       ELSE UNCHANGED UCSR0B
  /\ UNCHANGED << uart_active, real_baud_rate, uart_call >>
  /\ UNCHANGED recvvars
  /\ UNCHANGED NotUart

\* The main program sets the UART up, also to off, and sends strings.
NextUart ==
  \/ \E baud_rate \in BaudRates : UART_Init(baud_rate)
  \/ \E msg \in Messages : UART_QueueSend_Enter(msg, FALSE)
  \/ UART_WaitForSendDone
  \/ UART_QueueSend_Enable
  \/ UART_TransmitService

(***************************************************************************)
(* The threads of the workstation emulation: thread 1 runs the main        *)
(* program, every other thread Timer_ISRThread or UART_FeederThread.       *)
(***************************************************************************)

\* The thread that calls main() is the first.
MainThread == CHOOSE t \in Threads : \A u \in Threads : t <= u

IsrThreads == Threads \ {MainThread}

\* What Timer_ISR and a round of UART_FeederThread call of the framework.
HandlersOf(kind) ==
  IF kind = "Timer_ISRThread" THEN {"rtc_timestamp++", "rtc_usercallback"}
  ELSE IF kind = "UART_FeederThread"
    THEN {"UART_HandleRecvChar_ISR", "UART_GetNextSendChar_ISR"}
  ELSE {}

InitEmu ==
  /\ emu_kind \in [Threads -> {"main", "Timer_ISRThread", "UART_FeederThread"}]
  /\ \A t \in Threads : (emu_kind[t] = "main") <=> (t = MainThread)
  /\ emu_handler = [t \in Threads |-> "none"]

\* No timer thread was started.
InitEmuIdle ==
  /\ InitEmu
  /\ \A t \in IsrThreads : emu_kind[t] = "UART_FeederThread"

\* Mutant: the handlers are called before the block is entered.
CallsInsideBlock_Never(blocks) == TRUE

\* Timer_ISR and UART_FeederThread call the handlers in the body of their
\* ATOMIC_BLOCK.
CallsInsideBlock(blocks) == blocks # << >>

\* The main program enters a block, nested or not.
Main_ATOMIC_BLOCK == ATOMIC_GetCli_Check(MainThread, ATOMIC_RESTORESTATE)

\* An interrupt thread begins a round: ATOMIC_BLOCK(ATOMIC_RESTORESTATE).
Isr_ATOMIC_BLOCK(t) ==
  /\ t \in IsrThreads
  /\ cli_blocks[t] = << >>
  /\ emu_handler[t] = "none"
  /\ ATOMIC_GetCli_Check(t, ATOMIC_RESTORESTATE)

\* Everything but the atomic section and the threads.
NotEmu == << recvvars, sendvars, adcvars, parsevars, appvars, timervars,
             adcmainvars, queuevars, uartvars >>

\* A handler is called in the round of thread t, and returns.
Isr_Call(t, handler) ==
  /\ t \in IsrThreads
  /\ cli_pc[t] = "run"
  /\ CallsInsideBlock(cli_blocks[t])
  /\ emu_handler[t] = "none"
  /\ handler \in HandlersOf(emu_kind[t])
  /\ emu_handler' = [emu_handler EXCEPT ![t] = handler]
  /\ UNCHANGED emu_kind
  /\ UNCHANGED atomicvars
  /\ UNCHANGED NotEmu

Isr_Return(t) ==
  /\ emu_handler[t] # "none"
  /\ emu_handler' = [emu_handler EXCEPT ![t] = "none"]
  /\ UNCHANGED emu_kind
  /\ UNCHANGED atomicvars
  /\ UNCHANGED NotEmu

\* The end of a block, which a thread reaches outside any handler.
Emu_ReleaseCli(t) ==
  /\ emu_handler[t] = "none"
  /\ ATOMIC_ReleaseCli_Update(t)

NextEmu ==
  \/ Main_ATOMIC_BLOCK
  \/ \E t \in IsrThreads : Isr_ATOMIC_BLOCK(t)
  \/ \E t \in Threads : ATOMIC_GetCli_Claim(t)
  \/ \E t \in Threads : ATOMIC_GetCli_Update(t)
  \/ \E t \in IsrThreads : \E handler \in HandlersOf(emu_kind[t]) :
       Isr_Call(t, handler)
  \/ \E t \in IsrThreads : Isr_Return(t)
  \/ \E t \in Threads : Emu_ReleaseCli(t)
  \/ \E t \in Threads : ATOMIC_ReleaseCli_Unlock(t)

Init == InitRecv /\ InitSend /\ InitADC /\ InitParse /\ InitAppIdle /\ InitAtomic /\ InitTimerIdle /\ InitADCMain /\ InitQueue /\ InitUart /\ InitEmuIdle

InitAll == InitRecv /\ InitSend /\ InitADC /\ InitParse /\ InitApp /\ InitAtomic /\ InitTimerIdle /\ InitADCMain /\ InitQueue /\ InitUart /\ InitEmuIdle

SpecRecv == Init /\ [][NextRecv]_vars

SpecSend == Init /\ [][NextSend]_vars

SpecADC == Init /\ [][NextADC]_vars

SpecParse == Init /\ [][NextParse]_vars

SpecApp == InitAll /\ [][NextApp]_vars

SpecDispatch == InitAll /\ [][NextDispatch]_vars

SpecReport == InitAll /\ [][NextReport]_vars

SpecPoll == Init /\ [][NextPoll]_vars

\* Every thread but the first is one of the two interrupt threads.
InitAnyThreads ==
  InitRecv /\ InitSend /\ InitADC /\ InitParse /\ InitAppIdle /\ InitAtomic
    /\ InitTimerIdle /\ InitADCMain /\ InitQueue /\ InitUart /\ InitEmu

SpecEmu == InitAnyThreads /\ [][NextEmu]_vars

SpecReset == Init /\ [][NextReset]_vars

SpecDecimal == Init /\ [][NextDecimal]_vars

SpecReportSend == Init /\ [][NextReportSend]_vars /\ FairReportSend

SpecAtomic == Init /\ [][NextAtomic]_vars

\* Either build of the library.
InitAnyTarget ==
  InitRecv /\ InitSend /\ InitADC /\ InitParse /\ InitAppIdle /\ InitAtomic /\ InitTimer
    /\ InitADCMain /\ InitQueue /\ InitUart /\ InitEmuIdle

SpecTimer == InitAnyTarget /\ [][NextTimer]_vars

SpecUart == InitAnyTarget /\ [][NextUart]_vars

SpecADCIrq == Init /\ [][NextADCIrq]_vars

\* The transmit interrupt is served, and the main program runs on.
FairSend ==
  /\ WF_vars(TransmitInterrupt)
  /\ WF_vars(UART_WaitForSendDone)
  /\ WF_vars(UART_QueueSend_Install)

SpecSendFair == Init /\ [][NextSendIrq]_vars /\ FairSend

\* The scheduler runs every thread that can take a step, and a thread that
\* waits in lock() gets the mutex if it is free again and again.
FairAtomic ==
  \A t \in Threads :
    /\ SF_vars(ATOMIC_GetCli_Claim(t))
    /\ WF_vars(ATOMIC_GetCli_Update(t))
    /\ WF_vars(ATOMIC_ReleaseCli_Unlock(t))

SpecAtomicFair == Init /\ [][NextAtomic]_vars /\ FairAtomic

(***************************************************************************)
(* Receive side: what the claims speak of                                  *)
(***************************************************************************)

\* The rows holding complete, unread lines, oldest first.
UnreadRows == [k \in 1 .. rowcount |-> (oldestrow + k - 1) % UART_LINE_COUNT]

\* Whether row r of lines holds a NUL at an index below UART_LINE_SIZE.
IsTerminated(lines, r) ==
  \E i \in 0 .. UART_LINE_SIZE - 1 : Slot(lines, r)[i] = NUL

\* A step that is one call of UART_HandleRecvChar_ISR.
RecvStep == nrecv' = nrecv + 1
\* The character that call is given.
RecvArg == lastchar'[1]

\* No character has arrived since the last terminator (or at all).
NothingSinceTerminator == lastchar \in {NULL, Ptr(CR), Ptr(LF)}

\* The call is given a terminator that is not the LF of a CR-LF pair.
TerminatorArrives ==
  /\ RecvStep
  /\ RecvArg \in {CR, LF}
  /\ ~(RecvArg = LF /\ lastchar = Ptr(CR))

\* C1: the number of complete lines stays within 0 .. UART_LINE_COUNT-1, and
\* every complete unread line slot holds a NUL below UART_LINE_SIZE.
C1_RowcountBoundedLinesTerminated ==
  /\ rowcount \in 0 .. UART_LINE_COUNT - 1
  /\ \A k \in 1 .. rowcount : IsTerminated(UART_recvlines, UnreadRows[k])

\* C1 witness: the buffer is full of unread lines, one of them as long as a
\* slot allows (its terminator sits at the last index).
C1_Witness ==
  /\ rowcount = UART_LINE_COUNT - 1
  /\ \E k \in 1 .. rowcount :
       \A i \in 0 .. UART_LINE_SIZE - 2 :
         Slot(UART_recvlines, UnreadRows[k])[i] \notin {NUL}

\* C2: with filtering off and the buffer not full, a CR completes exactly
\* one line, an LF not directly after a CR completes exactly one line, the
\* LF directly after a CR completes none, and no other character does.
C2_OneLinePerTerminator ==
  [][ (RecvStep /\ ~uart_filter_empty_lines
         /\ rowcount < UART_LINE_COUNT - 1)
      => /\ (RecvArg = CR => rowcount' = rowcount + 1)
         /\ (RecvArg = LF /\ lastchar # Ptr(CR) => rowcount' = rowcount + 1)
         /\ (RecvArg = LF /\ lastchar = Ptr(CR) => rowcount' = rowcount)
         /\ (RecvArg \notin {CR, LF} => rowcount' = rowcount) ]_vars

\* C2 witness: two characters arrived, the second an LF that completed
\* nothing, and one (empty) line is complete: a CR-LF pair made one line.
C2_Witness ==
  /\ nrecv = 2
  /\ lastchar = Ptr(LF)
  /\ ~uart_filter_empty_lines
  /\ rowcount = 1
  /\ newestrow = 1
  /\ thisline = NULL
  /\ UART_recvlines[0] = NUL

\* C3: while filtering is on, a terminator that arrives when the line in
\* progress has no characters leaves rowcount, newestrow and the buffer as
\* they are, so no line of zero characters is ever completed.
C3_FilterDropsEmptyLines ==
  [][ (RecvStep /\ uart_filter_empty_lines /\ RecvArg \in {CR, LF}
         /\ NothingSinceTerminator)
      => UNCHANGED << rowcount, newestrow, UART_recvlines >> ]_vars

\* C3 witness: filtering is on, the last character was a CR, and no line was
\* ever completed: that CR arrived on an empty line and was dropped.
C3_Witness ==
  /\ uart_filter_empty_lines
  /\ lastchar = Ptr(CR)
  /\ nrecv >= 2
  /\ rowcount = 0
  /\ newestrow = 0

\* C4: while the main loop holds the pointer UART_GetNextLine returned, that
\* pointer is the oldest complete line, never the slot in progress, and the
\* slot holds what it held when the pointer was first returned.
C4_HeldLineIsOldestAndStable ==
  thisline # NULL =>
    /\ 0 < rowcount
    /\ thisline = Ptr(oldestrow * UART_LINE_SIZE)
    /\ oldestrow # newestrow
    /\ thisline_seen[1] = Slot(UART_recvlines, oldestrow)

\* C4 witness: the pointer is held on a non-empty line, and since it was
\* first returned a line was terminated while the buffer was full.
C4_Witness ==
  /\ thisline # NULL
  /\ rowcount = UART_LINE_COUNT - 1
  /\ overruns > thisline_seen[2]
  /\ thisline_seen[1][0] \notin {NUL}

\* The unread lines as UART_GetNextLine hands them out: each row, oldest first.
UnreadLines(lines, oldest, rc) ==
  [k \in 1 .. rc |-> Slot(lines, (oldest + k - 1) % UART_LINE_COUNT)]

\* A further line is terminated while UART_LINE_COUNT-1 lines are unread.
TerminatedWhenFull ==
  /\ TerminatorArrives
  /\ ~(uart_filter_empty_lines /\ NothingSinceTerminator)
  /\ rowcount = UART_LINE_COUNT - 1

\* C5 as stated: when a line is terminated with UART_LINE_COUNT-1 lines
\* unread, rowcount stays, the slot is reused, and the oldest unread line is
\* the one lost (it is released or its slot is overwritten).
C5_Original_OldestLineLost ==
  [][ (TerminatedWhenFull /\ UART_recvlines[oldestrow * UART_LINE_SIZE] # NUL)
      => /\ rowcount' = UART_LINE_COUNT - 1
         /\ newestrow' = newestrow
         /\ \/ oldestrow' # oldestrow
            \/ Slot(UART_recvlines', oldestrow) # Slot(UART_recvlines, oldestrow)
     ]_vars

\* C5 amended: when a line is terminated with UART_LINE_COUNT-1 lines unread,
\* rowcount stays, the same slot is reused for the next line, and the line
\* lost is the one just terminated: every unread line, the oldest included,
\* is kept as it was and the reused slot starts out empty.
C5_NewestLineLost ==
  [][ TerminatedWhenFull
      => /\ rowcount' = UART_LINE_COUNT - 1
         /\ newestrow' = newestrow
         /\ oldestrow' = oldestrow
         /\ UnreadLines(UART_recvlines', oldestrow', rowcount')
              = UnreadLines(UART_recvlines, oldestrow, rowcount)
         /\ UART_recvlines'[newestrow * UART_LINE_SIZE] = NUL
         /\ recvcharptr' = 0
     ]_vars

\* C5 witness: a line was just terminated while the buffer was full, and the
\* oldest unread line, a non-empty one, is still the first to be read.
C5_Witness ==
  /\ rowcount = UART_LINE_COUNT - 1
  /\ overruns > 0
  /\ lastchar = Ptr(CR)
  /\ recvcharptr = 0
  /\ UART_recvlines[oldestrow * UART_LINE_SIZE] \notin {NUL}

(***************************************************************************)
(* Transmit side: what the claims speak of                                 *)
(***************************************************************************)

\* A step that completes UART_QueueSend / UART_QueueSend_P.
InstallStep == sendpc = "install" /\ sendpc' = "idle"

\* A step of UART_GetNextSendChar_ISR (every other step moves sendpc).
SendIsrStep == sendpc' = sendpc

\* C6: a source and cursor are installed only while the transmit state is
\* idle, every character of the message installed before having been handed
\* out; a NULL message installs nothing; and the wait for the idle state
\* leaves the transmit interrupt free to run.
C6_InstallOnlyWhenIdle ==
  [][ /\ InstallStep =>
           /\ UART_transbuf = NULL
           /\ queued # NULL => sent = queued[1]
           /\ message = NULL =>
                UNCHANGED << UART_transbuf, transcharptr, trans_is_flash >>
           /\ message # NULL =>
                /\ UART_transbuf' = message
                /\ transcharptr' = 0
      /\ (UART_transbuf # UART_transbuf' /\ UART_transbuf' # NULL)
           => (InstallStep /\ UART_transbuf = NULL)
      /\ (sendpc = "wait" /\ UART_transbuf # NULL)
           => ENABLED UART_GetNextSendChar_ISR
    ]_vars

\* C6 witness: a call that began while a message was in flight has waited it
\* out and is about to install the next message.
C6_Witness ==
  /\ sendpc = "install"
  /\ busy_at_call
  /\ message # NULL
  /\ Len(queued[1]) = MaxMsgLen

\* C7: while a message is in flight the characters handed out are its first
\* transcharptr characters; a call at the terminator returns false and clears
\* the transmit state, with the whole message handed out; a call in the idle
\* state returns false and changes nothing.
C7_SendsExactlyTheMessage ==
  [][ /\ UART_transbuf' # NULL =>
           /\ UART_transbuf' = queued'
           /\ transcharptr' <= Len(queued'[1])
           /\ sent' = SubSeq(queued'[1], 1, transcharptr')
      /\ (UART_transbuf' = NULL /\ queued' # NULL) => sent' = queued'[1]
      /\ SendIsrStep =>
           /\ (UART_transbuf = NULL) =>
                /\ ~isr_result'
                /\ UNCHANGED << UART_transbuf, transcharptr, trans_is_flash,
                                sent >>
           /\ (UART_transbuf # NULL /\ sent # queued[1]) =>
                /\ isr_result'
                /\ sendchar' = queued[1][Len(sent) + 1]
                /\ sent' = Append(sent, sendchar')
                /\ UART_transbuf' = UART_transbuf
           /\ (UART_transbuf # NULL /\ sent = queued[1]) =>
                /\ ~isr_result'
                /\ UART_transbuf' = NULL
                /\ transcharptr' = 0
                /\ ~trans_is_flash'
                /\ sent' = sent
    ]_vars

\* C7 witness: a message of MaxMsgLen characters was handed out in full and
\* the call at its terminator has cleared the transmit state.
C7_Witness ==
  /\ queued # NULL
  /\ Len(queued[1]) = MaxMsgLen
  /\ queued[1][1] # queued[1][MaxMsgLen]
  /\ sent = queued[1]
  /\ UART_transbuf = NULL
  /\ ~isr_result

(***************************************************************************)
(* ADC scheduler: what the claims speak of                                 *)
(***************************************************************************)

\* The channels a mask requests, in ascending order.
RECURSIVE RequestedFrom(_, _)
RequestedFrom(channel_mask, c) ==
  IF c >= ADC_CHANNEL_COUNT THEN << >>
  ELSE (IF (channel_mask \div 2 ^ c) % 2 = 1 THEN << c >> ELSE << >>)
         \o RequestedFrom(channel_mask, c + 1)

Requested == RequestedFrom(adc_mask, 0)

\* The channels still marked as needing conversion.
Pending == {c \in Channels : ADC_needs_conversion[c]}

\* C8: after an accepted ADC_StartConversion(mask) the channels become ready
\* one at a time in ascending order of the requested channels, each once;
\* ADC_idle is false until the last of them is ready and true from then on.
C8_OneResultPerChannelAscending ==
  /\ Len(adc_ready_order) <= Len(Requested)
  /\ adc_ready_order = SubSeq(Requested, 1, Len(adc_ready_order))
  /\ ADC_idle <=> adc_ready_order = Requested
  /\ \A c \in Channels :
       ADC_data_ready[c] => \E k \in DOMAIN adc_ready_order : adc_ready_order[k] = c
  /\ ~ADC_idle =>
       \A k \in DOMAIN adc_ready_order : ADC_data_ready[adc_ready_order[k]]

\* C8 witness: a request for channels that are not neighbours has completed,
\* every result is still unread.
C8_Witness ==
  /\ ADC_idle
  /\ Len(Requested) >= 2
  /\ Requested[1] + 1 < Requested[2]
  /\ adc_ready_order = Requested
  /\ \A k \in DOMAIN Requested : ADC_data_ready[Requested[k]]

\* C9: when idle no channel needs conversion and no conversion is awaited;
\* when not idle some channel needs conversion and exactly one conversion is
\* awaited, that of the lowest channel still needing conversion, which is the
\* channel the converter has selected.
C9_IdleIffNothingPending ==
  /\ ADC_idle => (Pending = {} /\ adc_inflight = << >>)
  /\ ~ADC_idle =>
       /\ Pending # {}
       /\ \E c \in Pending :
            /\ \A d \in Pending : c <= d
            /\ adc_inflight = << c >>
            /\ admux = c

\* C9 witness: a request is under way, its first channel done and a later
\* one being converted, with more than one channel still to go.
C9_Witness ==
  /\ ~ADC_idle
  /\ adc_ready_order # << >>
  /\ Cardinality(Pending) >= 2
  /\ adsc

\* C10: ADC_StartConversion called while not idle changes neither ADC_idle
\* nor any needs_conversion flag, data_ready flag or stored value, and
\* starts no conversion.
C10_StartIgnoredWhenBusy ==
  [][ (adc_call' = "start" /\ ~ADC_idle)
      => UNCHANGED << ADC_idle, ADC_needs_conversion, ADC_data_ready,
                      ADC_data, admux, adsc, adc_inflight >> ]_vars

\* C10 witness: the last call was ADC_StartConversion and found a request
\* under way with a result already stored.
C10_Witness ==
  /\ adc_call = "start"
  /\ ~ADC_idle
  /\ \E c \in Channels : ADC_data_ready[c] /\ ADC_data[c] # 0

\* The channels holding an unread result.
Ready == {c \in Channels : ADC_data_ready[c]}

\* Whether a mask selects at least one channel the converter has.
SelectsValidChannel(channel_mask) == RequestedFrom(channel_mask, 0) # << >>

\* A step that is one call of ADC_StartConversion(channel_mask), made while idle.
StartWhileIdle(channel_mask) ==
  /\ adc_call' = "start"
  /\ ADC_idle
  /\ adc_mask' = channel_mask

Lowest(S) == CHOOSE c \in S : \A d \in S : c <= d

\* A step that is one call of ADC_ReadPendingSample.
ReadStep == adc_call' = "read"

\* C12: ADC_ReadPendingSample returns false and changes nothing while not
\* idle or when no channel is ready; otherwise it returns true with the value
\* and index of the lowest ready channel and clears that channel's flag only.
\* So after a completed conversion the calls that return true give out the
\* requested channels in ascending order, one each, and the channels still
\* ready are exactly those not yet given out.
C12_ReadLowestReadyOnly ==
  [][ /\ (ReadStep /\ (~ADC_idle \/ Ready = {})) =>
           /\ ~sample_found'
           /\ UNCHANGED << ADC_idle, ADC_needs_conversion, ADC_data_ready,
                           ADC_data, admux, adsc, sample_data, sample_channel >>
      /\ (ReadStep /\ ADC_idle /\ Ready # {}) =>
           /\ sample_found'
           /\ sample_channel' = Lowest(Ready)
           /\ sample_data' = ADC_data[Lowest(Ready)]
           /\ ADC_data_ready' = [ADC_data_ready EXCEPT ![Lowest(Ready)] = FALSE]
           /\ UNCHANGED << ADC_idle, ADC_needs_conversion, ADC_data, admux,
                           adsc >>
      /\ Len(adc_read_order') <= Len(RequestedFrom(adc_mask', 0))
      /\ adc_read_order' =
           SubSeq(RequestedFrom(adc_mask', 0), 1, Len(adc_read_order'))
      /\ ADC_idle' =>
           {c \in Channels : ADC_data_ready'[c]} =
             {RequestedFrom(adc_mask', 0)[k] :
                k \in Len(adc_read_order') + 1 .. Len(RequestedFrom(adc_mask', 0))}
      /\ ~ADC_idle' => adc_read_order' = << >>
    ]_vars

\* C12 witness: a conversion of three channels completed with differing
\* values, three calls returned true, and the call after them returned false.
C12_Witness ==
  /\ adc_call = "read"
  /\ ADC_idle
  /\ Len(Requested) >= 3
  /\ adc_read_order = Requested
  /\ ADC_data[Requested[1]] # ADC_data[Requested[2]]
  /\ ~sample_found
  /\ sample_channel = Requested[Len(Requested)]

(***************************************************************************)
(* Command parser: what the claims speak of                                *)
(***************************************************************************)

\* The character classes of the command syntax.
RefLetter(c) == (Ch_a <= c /\ c <= Ch_z) \/ (Ch_A <= c /\ c <= Ch_Z)
RefDigit(c) == Ch_0 <= c /\ c <= Ch_9
RefWhite(c) == c <= Ch_Space

\* The tokens of a line: its maximal runs of characters that are not blank.
RECURSIVE TokensFrom(_, _, _, _)
TokensFrom(line, i, cur, acc) ==
  IF i > Len(line)
    THEN IF cur = << >> THEN acc ELSE Append(acc, cur)
  ELSE IF RefWhite(line[i])
    THEN TokensFrom(line, i + 1, << >>,
                    IF cur = << >> THEN acc ELSE Append(acc, cur))
  ELSE TokensFrom(line, i + 1, Append(cur, line[i]), acc)

Tokens(line) == TokensFrom(line, 1, << >>, << >>)

AllLetters(t) == \A i \in DOMAIN t : RefLetter(t[i])
AllDigits(t) == \A i \in DOMAIN t : RefDigit(t[i])

\* A token in upper case, and the number a token of digits denotes.
UpperCase(t) == [i \in DOMAIN t |-> IF Ch_a <= t[i] THEN t[i] - 32 ELSE t[i]]
RECURSIVE DecimalValue(_)
DecimalValue(t) ==
  IF t = << >> THEN 0
  ELSE 10 * DecimalValue(SubSeq(t, 1, Len(t) - 1)) + (t[Len(t)] - Ch_0)

\* Optional blanks, NEURAPP_CMD_CHARS letters, up to two unsigned decimal
\* integers set off by blanks, optional blanks.
IsCommandLine(line) ==
  /\ Len(Tokens(line)) \in 1 .. 3
  /\ Len(Tokens(line)[1]) = NEURAPP_CMD_CHARS
  /\ AllLetters(Tokens(line)[1])
  /\ \A k \in 2 .. Len(Tokens(line)) : AllDigits(Tokens(line)[k])

\* The argument a command line gives at position k (0 when it gives none).
ArgOf(line, k) ==
  IF Len(Tokens(line)) > k THEN DecimalValue(Tokens(line)[k + 1]) ELSE 0

HasQuestion(line) == \E i \in DOMAIN line : line[i] = Ch_Question

\* What the claim names as making a line unparsable: a third argument token,
\* a fourth opcode letter, a character of no class, a letter outside the
\* opcode, a digit outside the arguments.
HasErrorCause(line) ==
  \/ Len(Tokens(line)) >= 4
  \/ /\ Tokens(line) # << >>
     /\ Len(Tokens(line)[1]) > NEURAPP_CMD_CHARS
     /\ AllLetters(SubSeq(Tokens(line)[1], 1, NEURAPP_CMD_CHARS + 1))
  \/ \E i \in DOMAIN line :
       ~RefLetter(line[i]) /\ ~RefDigit(line[i]) /\ ~RefWhite(line[i])
  \/ \E k \in 2 .. Len(Tokens(line)) : ~AllDigits(Tokens(line)[k])
  \/ Tokens(line) # << >> /\ ~AllLetters(Tokens(line)[1])

EntersError == \E i \in DOMAIN scan_states : scan_states[i] = "PSTATE_ERROR"

\* The state ParseInputLine has just returned in.
JustParsed == parse_call = "parse"

\* C13: a line of optional blanks, exactly three letters, up to two
\* blank-separated unsigned decimal integers and optional blanks is parsed
\* with result true, the opcode in upper case, argcount the number of
\* integers and arg1/arg2 their values (0 when missing).  A line without '?'
\* with a third argument token, a fourth opcode letter or a character not
\* allowed where it stands enters the Error state, stays there, and is parsed
\* with result false.
C13_ParsesCommandLines ==
  JustParsed =>
    /\ IsCommandLine(rawline) =>
         /\ was_ok
         /\ have_command
         /\ this_cmdname = UpperCase(Tokens(rawline)[1])
         /\ argsfound = Len(Tokens(rawline)) - 1
         /\ this_arg1 = ArgOf(rawline, 1)
         /\ this_arg2 = ArgOf(rawline, 2)
    /\ \A i \in DOMAIN scan_states : \A j \in DOMAIN scan_states :
         (i < j /\ scan_states[i] = "PSTATE_ERROR")
           => scan_states[j] = "PSTATE_ERROR"
    /\ (~HasQuestion(rawline) /\ HasErrorCause(rawline)) => EntersError
    /\ (~HasQuestion(rawline) /\ EntersError) => ~was_ok

\* C13 witness: a line with a blank before a lower-case opcode letter and two
\* arguments, the second of them 70, was parsed.
C13_Witness ==
  /\ JustParsed
  /\ IsCommandLine(rawline)
  /\ rawline[1] = Ch_Space
  /\ rawline[2] = Ch_a
  /\ argsfound = 2
  /\ this_arg2 = 70
  /\ this_cmdname[1] = Ch_A

\* C14: a line with a '?' anywhere is parsed with result true as the help
\* command HLP with argcount 0 and both arguments 0, whatever else it holds
\* and whatever state the scan reached.
C14_QuestionMeansHelp ==
  (JustParsed /\ HasQuestion(rawline)) =>
    /\ was_ok
    /\ have_command
    /\ this_cmdname = << 72, 76, 80 >>
    /\ argsfound = 0
    /\ this_arg1 = 0
    /\ this_arg2 = 0

\* C14 witness: the '?' stood inside the second argument of a command line.
C14_Witness ==
  /\ JustParsed
  /\ \E i \in 2 .. Len(rawline) :
       /\ rawline[i] = Ch_Question
       /\ scan_states[i - 1] = "PSTATE_SECONDARG"
  /\ was_ok

\* A line without '?' whose opcode has fewer letters than NEURAPP_CMD_CHARS.
HasShortOpcode(line) ==
  /\ ~HasQuestion(line)
  /\ Tokens(line) # << >>
  /\ Len(Tokens(line)[1]) < NEURAPP_CMD_CHARS
  /\ AllLetters(Tokens(line)[1])

\* C15: a line whose opcode has one or two letters is not returned as a
\* valid parsed command.
C15_ShortOpcodeRejected ==
  (JustParsed /\ HasShortOpcode(rawline)) => ~(was_ok /\ have_command)

\* A step that is one call of WasNewCommand / of ParseInputLine.
QueryStep == nqueries' = nqueries + 1
ParseStep == nparsed' = nparsed + 1

\* The caller's variables are as WasNewCommand found them.
OutputsKept == UNCHANGED << cmd, arg1, arg2, argcount >>
\* The caller's variables hold the parsed command.
OutputsCopied ==
  /\ cmd' = this_cmdname
  /\ arg1' = this_arg1
  /\ arg2' = this_arg2
  /\ argcount' = argsfound
  /\ UNCHANGED << this_cmdname, this_arg1, this_arg2, argsfound >>

\* C16 as stated: after each ParseInputLine call that returns true, the first
\* WasNewCommand call returns true and copies the command out, and every
\* further call returns false and leaves the caller's variables alone.
C16_Original_TrueAfterEveryOkParse ==
  [][ /\ (QueryStep /\ JustParsed /\ was_ok) => (was_new' /\ OutputsCopied)
      /\ (QueryStep /\ ~JustParsed) => (~was_new' /\ OutputsKept)
    ]_vars

\* C16 amended: after each ParseInputLine call that returns true for a line
\* that is not blank, the first WasNewCommand call returns true and copies
\* the command out; after a call that returns true for an empty or blank
\* line it returns false; every further call before the next ParseInputLine
\* returns false; a call that returns false leaves the caller's variables
\* alone.
C16_SingleShot ==
  [][ /\ (QueryStep /\ JustParsed /\ was_ok /\ Tokens(rawline) # << >>)
           => (was_new' /\ OutputsCopied)
      /\ (QueryStep /\ JustParsed /\ was_ok /\ Tokens(rawline) = << >>)
           => (~was_new' /\ OutputsKept)
      /\ (QueryStep /\ ~JustParsed) => (~was_new' /\ OutputsKept)
    ]_vars

\* C16 witness: a command with an argument was parsed and copied out, and a
\* second WasNewCommand call has returned false.
C16_Witness ==
  /\ nqueries = 2
  /\ ~was_new
  /\ was_ok
  /\ IsCommandLine(rawline)
  /\ cmd = UpperCase(Tokens(rawline)[1])
  /\ argcount = 1
  /\ arg1 = 70

\* A parser as its constructor leaves it.
FreshParser == ParserFields(FALSE, [i \in 1 .. NEURAPP_CMD_CHARS |-> NUL], 0, 0, 0)
\* The parser after the step.
ThisAfter ==
  ParserFields(have_command', this_cmdname', this_arg1', this_arg2', argsfound')

\* C17: when ParseInputLine returns false every parsed field is reset (no
\* command flag, opcode all zero, both arguments 0, argcount 0) and a
\* following WasNewCommand returns false; after any ParseInputLine call the
\* fields are those a new parser gives for that line, nothing of the line
\* before.
C17_FailedParseResets ==
  [][ /\ (ParseStep /\ ~was_ok') => ThisAfter = FreshParser
      /\ ParseStep => ThisAfter = ParseResult(FreshParser, rawline').p
      /\ (QueryStep /\ JustParsed /\ ~was_ok) => (~was_new' /\ OutputsKept)
    ]_vars

\* C17 witness: a command with two arguments was parsed and copied out, the
\* next line failed to parse, and WasNewCommand has returned false.
C17_Witness ==
  /\ nparsed = 2
  /\ ~was_ok
  /\ parse_call = "query"
  /\ ~was_new
  /\ argcount = 2
  /\ arg2 # 0
  /\ this_arg2 = 0
  /\ argsfound = 0

(***************************************************************************)
(* The application object: hooks and dispatch.                             *)
(***************************************************************************)

\* The rows of the registered table.
Rows == event_lut[1]

\* The handlers whose hook fn the last main-loop operation called, in order.
HandlersCalled(fn) ==
  LET these == SelectSeq(calls, LAMBDA c : CallFn(c) = fn)
  IN  [k \in 1 .. Len(these) |-> CallHandler(these[k])]

\* How often the last main-loop operation called fn.
TimesCalled(fn) == Len(SelectSeq(calls, LAMBDA c : CallFn(c) = fn))

\* The handlers of the first n rows, and those of the rows among them that
\* differ from the row before.
RowHandlers(n) == [i \in 1 .. n |-> RowHandler(Rows[i])]

DistinctHandlers(n) ==
  LET idx == SelectSeq([i \in 1 .. n |-> i],
                       LAMBDA i : i = 1 \/ RowHandler(Rows[i]) # RowHandler(Rows[i - 1]))
  IN  [k \in 1 .. Len(idx) |-> RowHandler(Rows[idx[k]])]

\* A soft reset has just run: in DoInitialSetup, by a call of ReInitState, or
\* for the INI command.
SoftResetRan ==
  \/ app_call \in {"DoInitialSetup", "ReInitState"}
  \/ app_call = "DoPolling" /\ app_line = Ptr(cmd_reset)

\* Two adjacent rows, and no others, hold handler h.
SharedByTwoRows(h) ==
  /\ event_lut # NULL
  /\ \E i \in 1 .. Len(Rows) - 1 :
       \A j \in 1 .. Len(Rows) : (RowHandler(Rows[j]) = h) <=> (j \in {i, i + 1})

FrameOk(f) ==
  /\ FramePc(f) = "tick" =>
       /\ FrameTicks(f) = DistinctHandlers(FrameHidx(f))
       /\ FramePolls(f) = << >>
  /\ FramePc(f) = "poll" =>
       /\ FrameTicks(f) \in {<< >>, DistinctHandlers(Len(Rows))}
       /\ FramePolls(f) = DistinctHandlers(FrameHidx(f))

\* C19: with a row distinct iff its handler differs from that of the row
\* before it, DoInitialSetup invokes InitHardware exactly once per distinct
\* row, DoPolling invokes HandlePolling exactly once per distinct row, and
\* one DoUpdate_ISR invokes HandleTick_ISR and HandlePollHighPriority_ISR at
\* most once per distinct row, all in row order.
C19_HooksOncePerDistinctRow ==
  /\ app_call = "DoInitialSetup" =>
       HandlersCalled("InitHardware") = DistinctHandlers(Len(Rows))
  /\ app_call = "DoPolling" =>
       HandlersCalled("HandlePolling") = DistinctHandlers(Len(Rows))
  /\ \A k \in DOMAIN isr_stack : FrameOk(isr_stack[k])

\* A nested invocation has run both loops over two rows sharing a handler
\* while the outer one is in its first loop.
C19_Witness ==
  /\ Len(isr_stack) = 2
  /\ Len(Rows) = 2
  /\ RowHandler(Rows[1]) = RowHandler(Rows[2])
  /\ FramePc(isr_stack[1]) = "poll"
  /\ FrameTicks(isr_stack[1]) = << RowHandler(Rows[1]) >>
  /\ FramePc(isr_stack[2]) = "tick"
  /\ FrameHidx(isr_stack[2]) = 2
  /\ FrameTicks(isr_stack[2]) = << RowHandler(Rows[1]) >>

\* The entries of the registered command lists, as (row, place) pairs, and
\* their order.
Listed ==
  UNION { { << i, c >> : c \in DOMAIN RowCmdlist(Rows[i])[1] } :
          i \in {j \in DOMAIN Rows : RowCmdlist(Rows[j]) # NULL} }

EntryAt(e) == RowCmdlist(Rows[e[1]])[1][e[2]]

Before(e, f) == e[1] < f[1] \/ (e[1] = f[1] /\ e[2] < f[2])

NamedLike(name) == {e \in Listed : CmdName(EntryAt(e)) = name}

FirstNamed(name) ==
  CHOOSE e \in NamedLike(name) : \A f \in NamedLike(name) : f = e \/ Before(e, f)

BuiltIn(name) ==
  name \in {cmd_help, cmd_ident, cmd_reset, cmd_echo, cmd_debug_mem, cmd_debug_evticks}

\* DoPolling has just handled a command line whose name is no built-in.
Dispatched ==
  /\ app_call = "DoPolling"
  /\ app_line # NULL
  /\ IsCommandLine(app_line[1])
  /\ ~BuiltIn(UpperCase(Tokens(app_line[1])[1]))

HandleCommandCalls == SelectSeq(calls, LAMBDA c : CallFn(c) = "HandleCommand")

\* C20: a command that is no built-in goes to the first entry, in row order
\* and list order over all rows, whose name matches.  When that entry's
\* argcount is the parsed one, the handler of that row gets HandleCommand
\* once, with the entry's opcode and both arguments, and nothing else is
\* called; when it differs, no handler is called and the short help is
\* printed; when no entry matches, the short help is printed.
C20_DispatchFirstMatch ==
  Dispatched =>
    LET line == app_line[1]
        name == UpperCase(Tokens(line)[1])
        argc == Len(Tokens(line)) - 1
    IN  IF NamedLike(name) = {}
          THEN HandleCommandCalls = << >> /\ TimesCalled("PrintShortHelp") = 1
          ELSE IF CmdArgcount(EntryAt(FirstNamed(name))) = argc
            THEN /\ HandleCommandCalls =
                      << Call("HandleCommand", RowHandler(Rows[FirstNamed(name)[1]]),
                              CmdOpcode(EntryAt(FirstNamed(name))),
                              ArgOf(line, 1), ArgOf(line, 2)) >>
                 /\ TimesCalled("PrintShortHelp") = 0
            ELSE HandleCommandCalls = << >> /\ TimesCalled("PrintShortHelp") = 1

\* Two adjacent rows share a handler, the command is listed in the second
\* row only, and the handler got it.
C20_Witness ==
  /\ Dispatched
  /\ Len(Rows) = 2
  /\ RowHandler(Rows[1]) = RowHandler(Rows[2])
  /\ RowCmdlist(Rows[1]) = Ptr(<< >>)
  /\ NamedLike(NameA) # {}
  /\ FirstNamed(NameA)[1] = 2
  /\ HandleCommandCalls =
       << Call("HandleCommand", RowHandler(Rows[2]),
               CmdOpcode(EntryAt(FirstNamed(NameA))), 55 - Ch_0, 0) >>
  /\ TimesCalled("PrintShortHelp") = 0

(***************************************************************************)
(* The report queue.                                                       *)
(***************************************************************************)

\* The MakeReportString calls of the last DoPolling, and those among them
\* that returned true; a call's third field is the slot it was given.
ReportCalls == SelectSeq(calls, LAMBDA c : CallFn(c) = "MakeReportString")

ReportsMade == SelectSeq(ReportCalls, LAMBDA c : c[4] = 1)

SlotsWritten == {ReportsMade[k][3] : k \in 1 .. Len(ReportsMade)}

\* The slots that held queued reports when report generation began.
SlotsQueuedBefore ==
  {(report_read_ptr + i) % QueueLength :
     i \in 0 .. report_count - Len(ReportsMade) - 1}

\* C21: once the application is set up, report_count is in
\* 0 .. NEURAPP_REPORT_QUEUE_LENGTH, both pointers are inside the queue and
\* report_write_ptr = (report_read_ptr + report_count) mod the queue length;
\* in a cycle that leaves the queue full no handler is asked again after the
\* report that filled it, and the reports made in a cycle went to different
\* slots, none of which held a queued report.
C21_QueueWithinBounds ==
  app_call # "new" =>
    /\ report_count \in 0 .. QueueLength
    /\ report_read_ptr \in 0 .. QueueLength - 1
    /\ report_write_ptr \in 0 .. QueueLength - 1
    /\ report_write_ptr = (report_read_ptr + report_count) % QueueLength
    /\ app_call = "DoPolling" =>
         /\ Len(ReportsMade) <= report_count
         /\ Cardinality(SlotsWritten) = Len(ReportsMade)
         /\ SlotsWritten \cap SlotsQueuedBefore = {}
         /\ report_count = QueueLength /\ ReportCalls # << >> =>
              ReportCalls[Len(ReportCalls)][4] = 1

\* A cycle found one report queued, got one more from a handler that had
\* more than that, and left the queue full.
C21_Witness ==
  /\ app_call = "DoPolling"
  /\ report_count = QueueLength
  /\ Len(ReportsMade) = 1
  /\ Len(ReportsMade) < app_offers
  /\ SlotsQueuedBefore # {}

\* A DoPolling cycle retires the oldest slot.
Retires == app_call' = "DoPolling" /\ report_read_ptr' # report_read_ptr

\* C22: a cycle retires a slot only when transmit_running was set and
\* UART_IsSendInProgress says that nothing is being sent; it then advances
\* report_read_ptr by one slot, takes one off report_count and clears
\* transmit_running until the next report, if any, is handed over.  While a
\* send is in progress nothing is retired and transmit_running stays.
C22_RetireOnlyAfterSendDone ==
  [][ /\ Retires =>
           /\ transmit_running
           /\ ~app_busy'
           /\ report_read_ptr' = (report_read_ptr + 1) % QueueLength
           /\ report_count' = report_count - 1 + Len(ReportsMade)'
           /\ transmit_running' = (report_count > 1)
      /\ app_call' = "DoPolling" /\ app_busy' =>
           /\ report_read_ptr' = report_read_ptr
           /\ transmit_running' = transmit_running
    ]_vars

\* A cycle has retired slot 0 and handed slot 1 to the transmitter.
C22_Witness ==
  /\ app_call = "DoPolling"
  /\ ~app_busy
  /\ report_read_ptr = 1
  /\ transmit_running
  /\ \E k \in DOMAIN calls : calls[k] = Call("UART_QueueSend_report", 0, 1, 0, 0)

(***************************************************************************)
(* The workstation emulation of ATOMIC_BLOCK.                              *)
(***************************************************************************)

\* Thread t is inside an ATOMIC_BLOCK; thread t holds the mutex that stands
\* for disabled interrupts.
InSection(t) == cli_blocks[t] # << >>

Holds(t) == atomic_waiting_mutex = Ptr(t)

OneOwner ==
  /\ \A t \in Threads : InSection(t) => Holds(t)
  /\ Cardinality({t \in Threads : InSection(t)}) <= 1
  /\ atomic_owner_count > 0 =>
       /\ atomic_owner_id \in Threads
       /\ Holds(atomic_owner_id)

\* The step unlocks atomic_waiting_mutex.
Unlocks == atomic_waiting_mutex # NULL /\ atomic_waiting_mutex' = NULL

\* Thread t leaves a block, its last one or an inner one.
LeavesLast(t) == Len(cli_blocks[t]) = 1 /\ cli_blocks'[t] = << >>

LeavesInner(t) == Len(cli_blocks[t]) > 1 /\ Len(cli_blocks'[t]) = Len(cli_blocks[t]) - 1

\* C23: with threads nesting ATOMIC_BLOCKs at will, at most one thread is
\* inside a block at any time, atomic_owner_count > 0 implies that
\* atomic_owner_id is the one thread that holds atomic_waiting_mutex, and the
\* mutex is unlocked only by its holder, in the release that took the count
\* to zero and ends the holder's last block.
C23_OneOwner ==
  [][ /\ OneOwner
      /\ OneOwner'
      /\ Unlocks =>
           /\ atomic_owner_count = 0
           /\ \E t \in Threads : Holds(t) /\ LeavesLast(t)
    ]_vars

\* Thread 1 is in two nested blocks while thread 2 waits for the mutex.
C23_Witness ==
  /\ Len(cli_blocks[1]) = 2
  /\ atomic_owner_count = 2
  /\ atomic_owner_id = 1
  /\ Holds(1)
  /\ cli_pc[2] = "claim"

\* Thread t is in ATOMIC_GetCli, before the lock.
Requests(t) == cli_pc[t] = "claim"

Enters(t) == Len(cli_blocks'[t]) = Len(cli_blocks[t]) + 1

\* C25: a thread holds the mutex from its outermost enter to its outermost
\* exit, whatever it nests in between.  An outermost block, of either policy,
\* ends with interrupts wanted and the mutex unlocked, which is how the
\* thread found it; a nested block with ATOMIC_RESTORESTATE ends with
\* interrupts not wanted and the mutex still held.
C25_LockedWhileNested ==
  [][\A t \in Threads :
       /\ InSection(t) => Holds(t)
       /\ InSection(t)' => Holds(t)'
       /\ Enters(t) =>
            cli_blocks'[t][Len(cli_blocks'[t])] =
              IF cli_save_old[t] = ATOMIC_RESTORESTATE /\ InSection(t)
                THEN ATOMIC_WANT_NO_INTERRUPTS
                ELSE ATOMIC_WANT_INTERRUPTS
       /\ LeavesInner(t) => Holds(t)'
       /\ LeavesLast(t) =>
            /\ cli_blocks[t][1] = ATOMIC_WANT_INTERRUPTS
            /\ atomic_waiting_mutex' = NULL
    ]_vars

\* Thread 1 is leaving a restoring block nested in another block.
C25_Witness ==
  /\ cli_blocks[1] = << ATOMIC_WANT_INTERRUPTS, ATOMIC_WANT_NO_INTERRUPTS >>
  /\ cli_pc[1] = "release"
  /\ atomic_owner_count = 1
  /\ Holds(1)

(***************************************************************************)
(* The real-time clock: what the claims speak of                           *)
(***************************************************************************)

\* The last Timer_Init asked for a tick rate of 0.
ClockDisabled == rtc_hz_set = Ptr(0)

\* C26: once Timer_Init was called with a tick rate of 0, and until the next
\* Timer_Init, no tick comes on either target: no callback is called and
\* rtc_timestamp changes only by Timer_Reset.
C26_ZeroRateStopsClock ==
  [][ClockDisabled /\ ClockDisabled' =>
        /\ timer_op' # "Timer_ISR"
        /\ cb_calls' = << >>
        /\ rtc_timestamp' # rtc_timestamp => timer_op' = "Timer_Reset"
    ]_vars

\* The same for the ATmega328P build alone.
ZeroRateStopsClock_m328p ==
  [][target = "m328p" /\ ClockDisabled /\ ClockDisabled' =>
        /\ timer_op' # "Timer_ISR"
        /\ cb_calls' = << >>
        /\ rtc_timestamp' # rtc_timestamp => timer_op' = "Timer_Reset"
    ]_vars

\* C27: a tick takes rtc_timestamp to its successor modulo the width of the
\* counter, Timer_Reset takes it to 0, and Timer_Query returns a value that
\* rtc_timestamp held during the call, which is the value it holds at the
\* return.
C27_TicksAndQuery ==
  [][ /\ timer_op' = "Timer_ISR" =>
           rtc_timestamp' = (rtc_timestamp + 1) % TimestampMod
      /\ timer_op' = "Timer_Reset" => rtc_timestamp' = 0
      /\ timer_op' = "Timer_Query" =>
           /\ timer_arg'[1] \in tq_seen
           /\ timer_arg' = Ptr(rtc_timestamp')
    ]_vars

\* Timer_Query has returned the first value that needs the second byte.
C27_Witness ==
  /\ timer_op = "Timer_Query"
  /\ timer_arg = Ptr(2 ^ ByteBits)
  /\ rtc_timestamp = 2 ^ ByteBits

\* C28: Timer_RegisterCallback makes its argument the callback, which
\* changes otherwise only by Timer_Init; a tick calls the callback, if there
\* is one, once, with interrupts kept out and Timer_Query_ISR returning the
\* value after the increment; with no callback the tick still counts.
C28_CallbackOncePerTick ==
  [][ /\ timer_op' = "Timer_RegisterCallback" => rtc_usercallback' = timer_arg'
      /\ rtc_usercallback' # rtc_usercallback =>
           timer_op' \in {"Timer_RegisterCallback", "Timer_Init"}
      /\ timer_op' = "Timer_ISR" =>
           /\ rtc_timestamp' = (rtc_timestamp + 1) % TimestampMod
           /\ cb_calls' =
                IF rtc_usercallback = NULL
                  THEN << >>
                  ELSE << << rtc_usercallback[1], rtc_timestamp', FALSE >> >>
    ]_vars

\* A tick has called the second callback with the counter at 1.
C28_Witness ==
  /\ timer_op = "Timer_ISR"
  /\ rtc_usercallback = Ptr(2)
  /\ cb_calls = << << 2, 1, FALSE >> >>

(***************************************************************************)
(* ADC scheduler and the tick interrupt: what the claims speak of          *)
(***************************************************************************)

\* The step is a poll that marks channel c ready.
PollMarksReady(c) ==
  /\ adc_call' = "poll"
  /\ ~ADC_data_ready[c]
  /\ ADC_data_ready'[c]

\* C29: with ADC_HousekeepingPoll running from the tick interrupt at any
\* point of ADC_StartConversion and ADC_ReadPendingSample, a poll marks a
\* channel ready only when the conversion it collects is that channel's,
\* no conversion is started while another is awaited, and ADC_idle is not
\* true while a conversion is under way or awaited.
C29_PollNeverSeesHalfStart ==
  [][ /\ \A c \in Channels :
           PollMarksReady(c) => adc_inflight # << >> /\ Head(adc_inflight) = c
      /\ Len(adc_inflight') <= 1
      /\ ADC_idle' => ~adsc' /\ adc_inflight' = << >>
    ]_vars

\* The three ways the interrupt goes wrong, each as the property it breaks.
PollMarksOnlyConverted ==
  [][\A c \in Channels :
       PollMarksReady(c) => adc_inflight # << >> /\ Head(adc_inflight) = c]_vars

OneConversionAtATime == Len(adc_inflight) <= 1

IdleMeansNoConversion == ADC_idle => ~adsc /\ adc_inflight = << >>

(***************************************************************************)
(* Waiting for the transmitter                                             *)
(***************************************************************************)

\* The main program is in UART_WaitForSendDone.
Waiting == sendpc = "wait"

\* C30: while UART_WaitForSendDone waits for a transmission the transmit
\* interrupt can run; when nothing is being sent the wait can only return;
\* and with the interrupt served fairly every wait, of UART_QueueSend and
\* UART_QueueSend_P too, comes to its return.
C30_WaitTerminates ==
  /\ [](Waiting /\ UART_IsSendInProgress => ENABLED TransmitInterrupt)
  /\ [](Waiting /\ ~UART_IsSendInProgress =>
          /\ ENABLED (UART_WaitForSendDone /\ sendpc' = "install")
          /\ ~ENABLED (UART_WaitForSendDone /\ sendpc' = "wait"))
  /\ Waiting ~> (sendpc = "install")

\* A call waits for a message of full length of which one character is out.
C30_Witness ==
  /\ Waiting
  /\ UART_transbuf # NULL
  /\ Len(UART_transbuf[1]) = MaxMsgLen
  /\ transcharptr = 1

(***************************************************************************)
(* Nested timer interrupts                                                 *)
(***************************************************************************)

\* The invocations of DoUpdate_ISR that are in their HandleTick_ISR loop or
\* in their HandlePollHighPriority_ISR loop.
TickFrames == {k \in DOMAIN isr_stack : FramePc(isr_stack[k]) = "tick"}

PollFrames == {k \in DOMAIN isr_stack : FramePc(isr_stack[k]) = "poll"}

\* The step is the entry of a DoUpdate_ISR invocation.
EntersUpdate == nupdates' = nupdates + 1

\* The step ends the HandleTick_ISR loop of the innermost invocation.
EndsTickDispatch ==
  /\ isr_stack # << >>
  /\ FramePc(Top) = "tick"
  /\ in_isr
  /\ ~in_isr'

\* C32: an invocation of DoUpdate_ISR entered while in_isr is set starts no
\* HandleTick_ISR loop and adds one to skipped_ticks_short_total; at most one
\* HandleTick_ISR loop is under way, in_isr is set exactly while one is, and
\* in_isr is clear when no invocation is under way.
C32_NestedTickSkipped ==
  [][ /\ EntersUpdate /\ in_isr =>
           /\ skipped_ticks_short_total' = skipped_ticks_short_total + 1
           /\ Cardinality(TickFrames') = Cardinality(TickFrames)
           /\ \A k \in DOMAIN isr_stack' \ DOMAIN isr_stack :
                FrameTicks(isr_stack'[k]) = << >>
      /\ EntersUpdate /\ ~in_isr =>
           skipped_ticks_short_total' = skipped_ticks_short_total
      /\ app_call' # "new" =>
           /\ Cardinality(TickFrames') <= 1
           /\ in_isr' <=> TickFrames' # {}
           /\ isr_stack' = << >> => ~in_isr'
    ]_vars

\* A third interrupt has come during the HandleTick_ISR loop of the first
\* invocation: two were skipped.
C32_Witness ==
  /\ skipped_ticks_short_total = 2
  /\ in_isr
  /\ isr_stack # << >>
  /\ FramePc(isr_stack[1]) = "tick"
  /\ FrameHidx(isr_stack[1]) = 1

\* C33: an invocation of DoUpdate_ISR entered while long_tasks_running is set
\* runs the whole HandleTick_ISR loop and skips, and counts, only its
\* HandlePollHighPriority_ISR loop, of which at most one is under way.
C33_LongTasksNeverBlockTicks ==
  [][ /\ EntersUpdate /\ long_tasks_running =>
           /\ TickFrames' # TickFrames
           /\ skipped_ticks_short_total' = skipped_ticks_short_total
      /\ EndsTickDispatch =>
           FrameTicks(Top) = DistinctHandlers(Len(Rows))
      /\ EndsTickDispatch /\ long_tasks_running =>
           /\ skipped_ticks_long_total' = skipped_ticks_long_total + 1
           /\ isr_stack' = Below
      /\ app_call' # "new" =>
           /\ Cardinality(PollFrames') <= 1
           /\ long_tasks_running' <=> PollFrames' # {}
    ]_vars

\* The parts of C33 that hold: at most one HandlePollHighPriority_ISR loop is
\* under way, a HandleTick_ISR loop that ends has called every distinct
\* handler, and an invocation that finds long_tasks_running set after its
\* HandleTick_ISR loop counts one skip and returns.
OneLongTaskAtATime ==
  [][ /\ EndsTickDispatch =>
           FrameTicks(Top) = DistinctHandlers(Len(Rows))
      /\ EndsTickDispatch /\ long_tasks_running =>
           /\ skipped_ticks_long_total' = skipped_ticks_long_total + 1
           /\ isr_stack' = Below
      /\ app_call' # "new" =>
           /\ Cardinality(PollFrames') <= 1
           /\ long_tasks_running' <=> PollFrames' # {}
    ]_vars

-----------------------------------------------------------------------------
\* Saving report state in DoPolling

\* Where in the calls of the last main-loop operation the hook fn was called.
CallPositions(fn) == {k \in 1 .. Len(calls) : CallFn(calls[k]) = fn}

\* The calls DoPolling makes inside its ATOMIC_BLOCK: the block holds the
\* SaveReportState_Fast loop and nothing else, so these calls lie side by
\* side, after every call for the received line and before every call that
\* sends or makes a report or polls a handler.
SavedInsideAtomicBlock ==
  LET saves == CallPositions("SaveReportState_Fast")
      after == CallPositions("UART_QueueSend_report") \cup CallPositions("MakeReportString")
               \cup CallPositions("HandlePolling") \cup CallPositions("UserUpdatePoll")
      before == (1 .. Len(calls)) \ (saves \cup after)
  IN  /\ \A k \in saves : \A b \in before : b < k
      /\ \A k \in saves : \A a \in after : k < a

\* C34: a DoPolling cycle calls SaveReportState_Fast once for every distinct
\* handler (adjacent rows with one handler count once), inside the atomic
\* block, which is left before MakeReportString, HandlePolling or a command
\* handler runs.
C34_SaveOncePerDistinctHandler ==
  app_call = "DoPolling" =>
    /\ HandlersCalled("SaveReportState_Fast") = DistinctHandlers(Len(Rows))
    /\ SavedInsideAtomicBlock

\* What the loop does: one call for every row, in row order, inside the block.
SavePerRow ==
  app_call = "DoPolling" =>
    /\ HandlersCalled("SaveReportState_Fast") = RowHandlers(Len(Rows))
    /\ SavedInsideAtomicBlock

-----------------------------------------------------------------------------
\* The received line in DoPolling

\* DoPolling runs from its call of UART_GetNextLine to its end.
PollsLine == app_call = "DoPolling_line" /\ app_call' = "DoPolling"

-----------------------------------------------------------------------------
\* Reports from the queue to the UART

\* The reports made so far, in the order handlers made them.
ReportsInOrder == [k \in 1 .. naccepted |-> << k >>]

\* A call of DoPolling passes a report to UART_QueueSend.
StartsReport == report_log' # report_log

\* C35: with DoPolling called again and again and the transmit interrupt
\* served, every report a handler made is in time passed to UART_QueueSend,
\* once and in the order the reports were made; a report is started only
\* when nothing is being sent and the report before it is finished with, one
\* per call; and transmit_running is set only with a report in the queue.
C35_ReportsSentInOrder ==
  /\ [](/\ Len(report_log) <= naccepted
        /\ report_log = SubSeq(ReportsInOrder, 1, Len(report_log))
        /\ (app_call # "new" /\ transmit_running) => report_count > 0)
  /\ [][ StartsReport =>
           /\ ~UART_IsSendInProgress
           /\ Len(report_log') = Len(report_log) + 1
           /\ transmit_running'
           /\ transmit_running =>
                /\ report_read_ptr' = NextSlot(report_read_ptr)
                /\ report_count' >= 1
       ]_vars
  /\ \A n \in 1 .. MaxReports : (naccepted >= n) ~> (Len(report_log) >= n)

\* Three reports were made and all three have been sent in full, the queue
\* having wrapped around.
C35_Witness ==
  /\ naccepted = MaxReports
  /\ Len(report_log) = MaxReports
  /\ ~UART_IsSendInProgress
  /\ sent = << MaxReports >>

-----------------------------------------------------------------------------
\* Long decimal arguments

\* The digits after the last blank of a line.
LastToken(line) ==
  LET blanks == {i \in 1 .. Len(line) : line[i] = 32}
      start == IF blanks = {} THEN 1
               ELSE 1 + CHOOSE i \in blanks : \A j \in blanks : j <= i
  IN  SubSeq(line, start, Len(line))

\* C40: a decimal token of any length is accepted, and the argument the
\* parser holds for it, and hands to the caller, is the number the token
\* spells modulo 65536.
C40_DecimalWraps ==
  /\ parse_call = "parse" =>
       /\ was_ok
       /\ argsfound \in {1, 2}
       /\ (IF argsfound = 1 THEN this_arg1 ELSE this_arg2)
            = DecimalValue(LastToken(rawline)) % UInt16
  /\ parse_call = "query" /\ nparsed = 1 /\ nqueries = 1 =>
       /\ was_new
       /\ argcount \in {1, 2}
       /\ (IF argcount = 1 THEN arg1 ELSE arg2)
            = DecimalValue(LastToken(rawline)) % UInt16

\* The caller was handed the argument of "aaa 65536": it is 0.
C40_Witness ==
  /\ parse_call = "query"
  /\ LastToken(rawline) = << 54, 53, 53, 51, 54 >>
  /\ argcount = 1
  /\ arg1 = 0

-----------------------------------------------------------------------------
\* Timer_Init on the two targets

\* C38: on the microcontroller and in the emulation alike, Timer_Init leaves
\* the tick counter at zero and no callback registered.
C38_InitClearsClockEverywhere ==
  timer_op = "Timer_Init" => rtc_timestamp = 0 /\ rtc_usercallback = NULL

\* The same for the ATmega328P build alone.
InitClearsClock_m328p ==
  target = "m328p" /\ timer_op = "Timer_Init" =>
    rtc_timestamp = 0 /\ rtc_usercallback = NULL

-----------------------------------------------------------------------------
\* Buffers that are being sent

\* C39: while a string is being sent, the main loop does not write the
\* buffer that holds it: not the report slot, also not in a soft reset, and
\* not the scratch string of the print functions.
C39_SourceNeverWritten == UART_IsSendInProgress => ~trans_torn

\* The same as long as no soft reset was begun with a report being sent.
SourceWrittenOnlyByReset ==
  [][trans_torn' /\ ~trans_torn => app_call' = "ReInitState_wait"]_vars

-----------------------------------------------------------------------------
\* Turning the UART off

\* UART_Init has just been called with this baud rate.
JustInitialised(baud_rate) ==
  uart_call = "UART_Init" /\ real_baud_rate = baud_rate

\* C31: after UART_Init with a baud rate of 0 nothing is being sent any more:
\* a string that was on its way is dropped, so that a later
\* UART_WaitForSendDone or UART_QueueSend returns.
C31_InitOffStopsSend == JustInitialised(0) => ~UART_IsSendInProgress

\* With a nonzero baud rate the ATmega328P build does drop the string.
InitOnStopsSend_m328p ==
  target = "m328p" /\ JustInitialised(1) => ~UART_IsSendInProgress

\* Once the UART was turned off with a string on its way, the main program
\* never gets past the wait of its next UART_QueueSend.
WaitIsStuck == JustInitialised(0) /\ UART_IsSendInProgress /\ sendpc = "wait"

SendAfterOffBlocks == [][WaitIsStuck => WaitIsStuck']_vars

-----------------------------------------------------------------------------
\* Interrupt handlers in the emulation

\* Thread t is in a handler of the framework.
InHandler(t) == emu_handler[t] # "none"

=============================================================================
